---- MODULE Spec2Model ----
(***************************************************************************)
(* Billing ledger of src/src/app.js: the tenant's invoice and voucher      *)
(* collections in the remote store, the Invoices page (subscription, form, *)
(* save, delete) and the PaymentVouchers page (subscription, form, the     *)
(* payment transaction) of each browser session of one tenant.             *)
(*                                                                         *)
(* Amounts are integers (minor units).  A store document is a record; a    *)
(* collection is a function from the ids of its existing documents.        *)
(* runTransaction is the store's optimistic transaction: a commit succeeds *)
(* only if the document read by transaction.get was not written since, and *)
(* the update function is re-run otherwise, up to MaxAttempts attempts     *)
(* (the store's own limit is larger; MaxAttempts bounds it here).          *)
(***************************************************************************)
EXTENDS Integers, Sequences, FiniteSets, TLC

\* ---------------------------------------------------------------- bounds
NumSessions == 2
MaxInvoices == 1
MaxVouchers == 2
MaxPayments == 3
MaxItems == 1
MaxAttempts == 2
MaxCreated == 2
MaxLines == 2
MaxCustomers == 2
MaxServices == 1
MaxTenantDocs == 1
MaxProfiles == 2

Sessions == 1..NumSessions
InvoiceIds == 1..MaxInvoices

\* unit prices of the service catalogue and quantities typed into the
\* invoice form
Prices == {50}
Quantities == {1, 2}

\* amounts typed into the voucher form (type=number, no min attribute):
\* Amounts in runs with the invoice desk, PayAmounts in runs of payments only
Amounts == {50}
PayAmounts == {-50, 0, 50}
CalcAmounts == {-50, 0, 50, 150}

\* ------------------------------------------------------- program constants
FirstInvoiceNumber == 1001
FirstVoucherNumber == 1

Pending == "Pending"
PartiallyPaid == "PartiallyPaid"
Paid == "Paid"
Overdue == "Overdue"

VARIABLES
    page,            \* MainApp.page of each session
    invoices,        \* store: invoices collection, id -> document
    nextInvoiceId,   \* store: next auto-generated document id
    vouchers,        \* store: vouchers collection, in insertion order
    invSnap,         \* Invoices.invoices of each session (last snapshot)
    vchSnap,         \* PaymentVouchers.vouchers of each session
    isModalOpen,     \* Invoices.isModalOpen
    currentInvoice,  \* Invoices.currentInvoice
    formData,        \* InvoiceForm.formData
    payForm,         \* PaymentVoucherForm.formData.invoiceId (0: none)
    tx,              \* the running payment transaction of each session
    outcome,         \* how the last PaymentVouchers.handleSave ended
    customers,       \* store: number of documents of the customers collection
    services,        \* store: number of documents of the services collection
    custSnap,        \* Customers.customers of each session (size of the snapshot)
    svcSnap,         \* Services.services of each session (size of the snapshot)
    stats,           \* Dashboard.stats of each session
    recentInvoices,  \* Dashboard.recentInvoices
    salesData,       \* Dashboard.salesData
    vouchersModalOpen,           \* Invoices.vouchersModalOpen
    selectedInvoiceForVouchers,  \* Invoices.selectedInvoiceForVouchers (id, 0: none)
    invVouchers,     \* VouchersForInvoiceModal.vouchers
    listeners,       \* store: the registered onSnapshot listeners
    profiles,        \* store: the profiles collection, in insertion order
    currentUser,     \* App.currentUser of each session (<<>>: signed out)
    auth,            \* AuthPage state and the position of its handleSubmit
    userdata,        \* store: the documents under each data path
    tenantView       \* the documents a session was last delivered, by data path

storeVars == <<invoices, nextInvoiceId, vouchers>>
invoicePageVars == <<invSnap, isModalOpen, currentInvoice, formData>>
voucherPageVars == <<vchSnap, payForm, tx, outcome>>
listVars == <<customers, services, custSnap, svcSnap>>
dashboardVars == <<stats, recentInvoices, salesData>>
modalVars == <<vouchersModalOpen, selectedInvoiceForVouchers, invVouchers>>
directoryVars == <<profiles, currentUser, auth>>
tenantVars == <<userdata, tenantView>>

\* the state outside the invoice and voucher pages and their collections
otherVars == <<listVars, dashboardVars, modalVars, listeners, directoryVars, tenantVars>>

vars == <<page, invoices, nextInvoiceId, vouchers, invSnap, vchSnap, isModalOpen,
          currentInvoice, formData, payForm, tx, outcome, otherVars>>

\* ---------------------------------------------------------------- helpers
RECURSIVE SumSeq(_)
SumSeq(q) == IF q = <<>> THEN 0 ELSE Head(q) + SumSeq(Tail(q))

MaxOf(S) == CHOOSE m \in S : \A n \in S : n <= m

\* obj.field || 0
FieldOrZero(obj, field) == IF field \in DOMAIN obj THEN obj[field] ELSE 0

\* a record without one of its fields
Without(obj, field) == [f \in DOMAIN obj \ {field} |-> obj[f]]

BlankItem == [quantity |-> 1, price |-> 0]

\* dates are month * 100 + day of one year; Today is the date a new form shows
Today == 315

\* a total that adds the prices and leaves out the quantities
RECURSIVE calculateTotalPrices(_)
calculateTotalPrices(items) ==
    IF items = <<>> THEN 0
    ELSE Head(items).price + calculateTotalPrices(Tail(items))

\* InvoiceForm.calculateTotal
RECURSIVE calculateTotal(_)
calculateTotal(items) ==
    IF items = <<>> THEN 0
    ELSE Head(items).quantity * Head(items).price + calculateTotal(Tail(items))

\* a form whose total is not recomputed
WithTotalKept(fd) == fd

\* the effect on [formData.items]: total follows the items
WithTotal(fd) == [fd EXCEPT !.total = calculateTotal(fd.items)]

\* the form of a new invoice
BlankForm == [date |-> Today, items |-> <<BlankItem>>, total |-> 0]

NoInvoice == [id |-> 0]

\* no transaction running
IdleTx == [pc |-> "idle", invoiceId |-> 0, amount |-> 0, voucherNumber |-> 0,
           invoiceData |-> NoInvoice, fresh |-> FALSE, attempts |-> 0]

\* numbering by the size of the snapshot
NextNumberByCount(numbers, floor) == floor + Cardinality(numbers)

\* Math.max(...numbers) + 1, or the floor for an empty snapshot
NextNumber(numbers, floor) == IF numbers = {} THEN floor ELSE MaxOf(numbers) + 1

InvoiceNumbers(snap) == {snap[i].invoiceNumber : i \in DOMAIN snap}
VoucherNumbers(snap) == {snap[k].voucherNumber : k \in DOMAIN snap}

\* a store that never detects a written snapshot
InvalidateNever(txs, i) == txs

\* a store that guards the whole collection: a write to any invoice takes
\* the snapshot of every running transaction
InvalidateAll(txs, i) ==
    [s \in Sessions |->
        IF txs[s].pc = "commit"
        THEN [txs[s] EXCEPT !.fresh = FALSE, !.invoiceData = NoInvoice]
        ELSE txs[s]]

\* every running transaction that has read invoice i loses its snapshot
Invalidate(txs, i) ==
    [s \in Sessions |->
        IF txs[s].pc = "commit" /\ txs[s].invoiceId = i
        THEN [txs[s] EXCEPT !.fresh = FALSE, !.invoiceData = NoInvoice]
        ELSE txs[s]]

\* ------------------------------------------------------- data paths
appId == "default-pro-team-app"

\* one path for every username
dataPathShared(username) == <<"artifacts", appId, "public", "data", "userdata">>

\* `artifacts/${appId}/public/data/userdata/${username}`
dataPath(username) == <<"artifacts", appId, "public", "data", "userdata", username>>

\* the username and password of the tenant the sessions are signed in as in
\* the runs of one tenant; characters are one-letter strings
Tenant == <<"a", "1">>
Secret == <<"s", "e", "c", "r", "e", "t">>
OtherTenant == <<"b", "2">>

\* AuthPage before a submit
BlankAuth == [pc |-> "form", username |-> <<>>, password |-> <<>>,
              isLogin |-> TRUE, docs |-> <<>>, error |-> "none"]

\* the characters of usernames
UpperCase == <<"A", "B", "C", "D", "E", "F", "G", "H", "I", "J", "K", "L", "M",
               "N", "O", "P", "Q", "R", "S", "T", "U", "V", "W", "X", "Y", "Z">>
LowerCase == <<"a", "b", "c", "d", "e", "f", "g", "h", "i", "j", "k", "l", "m",
               "n", "o", "p", "q", "r", "s", "t", "u", "v", "w", "x", "y", "z">>
Digits == <<"0", "1", "2", "3", "4", "5", "6", "7", "8", "9">>

\* String.prototype.toLowerCase, on the characters above and the others
toLowerCase(str) ==
    [k \in DOMAIN str |->
        IF \E n \in DOMAIN UpperCase : UpperCase[n] = str[k]
        THEN LowerCase[CHOOSE n \in DOMAIN UpperCase : UpperCase[n] = str[k]]
        ELSE str[k]]

\* /^[a-zA-Z0-9]+$/.test(str)
IsAlphanumeric(str) ==
    /\ str # <<>>
    /\ \A k \in DOMAIN str :
        \/ \E n \in DOMAIN UpperCase : UpperCase[n] = str[k]
        \/ \E n \in DOMAIN LowerCase : LowerCase[n] = str[k]
        \/ \E n \in DOMAIN Digits : Digits[n] = str[k]

\* ------------------------------------------------------- subscriptions
\* the onSnapshot listeners the page component registers when it mounts, as
\* <<session, component, collection>>
Subscriptions(s, p) ==
    IF p = "dashboard" THEN {<<s, "Dashboard", "invoices">>, <<s, "Dashboard", "customers">>}
    ELSE IF p = "invoices" THEN {<<s, "Invoices", "invoices">>}
    ELSE IF p = "customers" THEN {<<s, "Customers", "customers">>}
    ELSE IF p = "services" THEN {<<s, "Services", "services">>}
    ELSE IF p = "vouchers" THEN {<<s, "PaymentVouchers", "vouchers">>}
    ELSE {}

\* Dashboard.stats before the first notification
InitialStats == [sales |-> 0, profit |-> 0, customers |-> 0, invoices |-> 0]

\* ------------------------------------------------------------------- Init
\* the state outside the invoice and voucher pages: every session is signed
\* in as Tenant and has mounted its page
InitOther ==
    /\ customers = 0
    /\ services = 0
    /\ custSnap = [s \in Sessions |-> 0]
    /\ svcSnap = [s \in Sessions |-> 0]
    /\ stats = [s \in Sessions |-> InitialStats]
    /\ recentInvoices = [s \in Sessions |-> <<>>]
    /\ salesData = [s \in Sessions |-> <<>>]
    /\ vouchersModalOpen = [s \in Sessions |-> FALSE]
    /\ selectedInvoiceForVouchers = [s \in Sessions |-> 0]
    /\ invVouchers = [s \in Sessions |-> <<>>]
    /\ listeners = UNION {Subscriptions(s, page[s]) : s \in Sessions}
    /\ profiles = <<[username |-> Tenant, password |-> Secret]>>
    /\ currentUser = [s \in Sessions |-> Tenant]
    /\ auth = [s \in Sessions |-> BlankAuth]
    /\ userdata = <<>>
    /\ tenantView = [s \in Sessions |-> <<>>]

Init ==
    /\ page = [s \in Sessions |-> "dashboard"]
    /\ invoices = <<>>
    /\ nextInvoiceId = 1
    /\ vouchers = <<>>
    /\ invSnap = [s \in Sessions |-> <<>>]
    /\ vchSnap = [s \in Sessions |-> <<>>]
    /\ isModalOpen = [s \in Sessions |-> FALSE]
    /\ currentInvoice = [s \in Sessions |-> NoInvoice]
    /\ formData = [s \in Sessions |-> BlankForm]
    /\ payForm = [s \in Sessions |-> 0]
    /\ tx = [s \in Sessions |-> IdleTx]
    /\ outcome = [s \in Sessions |-> "none"]
    /\ InitOther

\* --------------------------------------------------------------- MainApp
Pages == {"dashboard", "invoices", "vouchers"}

\* a navigation that leaves the listeners of the page left registered
navigateLeaky(s, p) ==
    /\ currentUser[s] # <<>>
    /\ page[s] # p
    /\ ~isModalOpen[s]
    /\ ~vouchersModalOpen[s]
    /\ page' = [page EXCEPT ![s] = p]
    /\ invSnap' = [invSnap EXCEPT ![s] = <<>>]
    /\ isModalOpen' = [isModalOpen EXCEPT ![s] = FALSE]
    /\ currentInvoice' = [currentInvoice EXCEPT ![s] = NoInvoice]
    /\ formData' = [formData EXCEPT ![s] = BlankForm]
    /\ vchSnap' = [vchSnap EXCEPT ![s] = <<>>]
    /\ payForm' = [payForm EXCEPT ![s] = 0]
    /\ custSnap' = [custSnap EXCEPT ![s] = 0]
    /\ svcSnap' = [svcSnap EXCEPT ![s] = 0]
    /\ stats' = [stats EXCEPT ![s] = InitialStats]
    /\ recentInvoices' = [recentInvoices EXCEPT ![s] = <<>>]
    /\ salesData' = [salesData EXCEPT ![s] = <<>>]
    /\ selectedInvoiceForVouchers' = [selectedInvoiceForVouchers EXCEPT ![s] = 0]
    /\ invVouchers' = [invVouchers EXCEPT ![s] = <<>>]
    /\ listeners' = listeners \cup Subscriptions(s, p)
    /\ UNCHANGED <<storeVars, tx, outcome, customers, services, vouchersModalOpen,
                   directoryVars, tenantVars>>

\* Sidebar.navigate: the page left is unmounted (its effect cleanups
\* unsubscribe its listeners) and the page entered is mounted with its
\* initial state and its listeners; a running transaction keeps running.
\* An open modal covers the sidebar and the list.
navigate(s, p) ==
    /\ currentUser[s] # <<>>
    /\ page[s] # p
    /\ ~isModalOpen[s]
    /\ ~vouchersModalOpen[s]
    /\ page' = [page EXCEPT ![s] = p]
    /\ invSnap' = [invSnap EXCEPT ![s] = <<>>]
    /\ isModalOpen' = [isModalOpen EXCEPT ![s] = FALSE]
    /\ currentInvoice' = [currentInvoice EXCEPT ![s] = NoInvoice]
    /\ formData' = [formData EXCEPT ![s] = BlankForm]
    /\ vchSnap' = [vchSnap EXCEPT ![s] = <<>>]
    /\ payForm' = [payForm EXCEPT ![s] = 0]
    /\ custSnap' = [custSnap EXCEPT ![s] = 0]
    /\ svcSnap' = [svcSnap EXCEPT ![s] = 0]
    /\ stats' = [stats EXCEPT ![s] = InitialStats]
    /\ recentInvoices' = [recentInvoices EXCEPT ![s] = <<>>]
    /\ salesData' = [salesData EXCEPT ![s] = <<>>]
    /\ selectedInvoiceForVouchers' = [selectedInvoiceForVouchers EXCEPT ![s] = 0]
    /\ invVouchers' = [invVouchers EXCEPT ![s] = <<>>]
    /\ listeners' = (listeners \ Subscriptions(s, page[s])) \cup Subscriptions(s, p)
    /\ UNCHANGED <<storeVars, tx, outcome, customers, services, vouchersModalOpen,
                   directoryVars, tenantVars>>

\* App.handleLogout: MainApp and the page it shows are unmounted, AuthPage is
\* mounted
handleLogout(s) ==
    /\ page[s] # "auth"
    /\ ~isModalOpen[s]
    /\ ~vouchersModalOpen[s]
    /\ currentUser' = [currentUser EXCEPT ![s] = <<>>]
    /\ auth' = [auth EXCEPT ![s] = BlankAuth]
    /\ page' = [page EXCEPT ![s] = "auth"]
    /\ invSnap' = [invSnap EXCEPT ![s] = <<>>]
    /\ isModalOpen' = [isModalOpen EXCEPT ![s] = FALSE]
    /\ currentInvoice' = [currentInvoice EXCEPT ![s] = NoInvoice]
    /\ formData' = [formData EXCEPT ![s] = BlankForm]
    /\ vchSnap' = [vchSnap EXCEPT ![s] = <<>>]
    /\ payForm' = [payForm EXCEPT ![s] = 0]
    /\ custSnap' = [custSnap EXCEPT ![s] = 0]
    /\ svcSnap' = [svcSnap EXCEPT ![s] = 0]
    /\ stats' = [stats EXCEPT ![s] = InitialStats]
    /\ recentInvoices' = [recentInvoices EXCEPT ![s] = <<>>]
    /\ salesData' = [salesData EXCEPT ![s] = <<>>]
    /\ selectedInvoiceForVouchers' = [selectedInvoiceForVouchers EXCEPT ![s] = 0]
    /\ invVouchers' = [invVouchers EXCEPT ![s] = <<>>]
    /\ tenantView' = [tenantView EXCEPT ![s] = <<>>]
    /\ listeners' = listeners \ Subscriptions(s, page[s])
    /\ UNCHANGED <<storeVars, tx, outcome, customers, services, vouchersModalOpen,
                   profiles, userdata>>

\* setCurrentUser(user): AuthPage is unmounted and MainApp is mounted on its
\* dashboard for the user
SignedIn(s, user) ==
    /\ currentUser' = [currentUser EXCEPT ![s] = user]
    /\ auth' = [auth EXCEPT ![s] = BlankAuth]
    /\ page' = [page EXCEPT ![s] = "dashboard"]
    /\ listeners' = listeners \cup Subscriptions(s, "dashboard")

\* App.handleLoginSuccess for a user whose profile is stored
handleLoginSuccess(s, user) ==
    /\ page[s] = "auth"
    /\ SignedIn(s, user)
    /\ UNCHANGED <<storeVars, invoicePageVars, voucherPageVars, listVars,
                   dashboardVars, modalVars, profiles, tenantVars>>

\* ------------------------------------------------------------- AuthPage
\* AuthPage.handleSubmit up to the result of getDocs: the profiles whose
\* username is the lower-cased input, as stored when the query is served
AuthSubmit(s, username, password, isLogin) ==
    /\ page[s] = "auth"
    /\ auth[s].pc = "form"
    /\ auth' = [auth EXCEPT ![s] =
            [pc |-> "queried", username |-> username, password |-> password,
             isLogin |-> isLogin,
             docs |-> SelectSeq(profiles,
                        LAMBDA profile : profile.username = toLowerCase(username)),
             error |-> "none"]]
    /\ UNCHANGED <<page, storeVars, invoicePageVars, voucherPageVars, listVars,
                   dashboardVars, modalVars, listeners, profiles, currentUser,
                   tenantVars>>

\* the branches of handleSubmit after the query: what the call ends with
AuthOutcome(a) ==
    IF a.isLogin
    THEN IF a.docs = <<>> THEN "unknownUser"
         ELSE IF a.docs[1].password = a.password THEN "login"
         ELSE "wrongPassword"
    ELSE IF a.docs # <<>> THEN "usernameTaken"
         ELSE IF Len(a.password) < 6 THEN "shortPassword"
         ELSE IF ~IsAlphanumeric(a.username) THEN "badUsername"
         ELSE "add"

\* AuthPage.handleSubmit after the query: login, registration by addDoc, or
\* an error shown on the form
AuthResolve(s) ==
    /\ page[s] = "auth"
    /\ auth[s].pc = "queried"
    /\ LET a == auth[s]
           result == AuthOutcome(a)
       IN  IF result = "login"
           THEN /\ SignedIn(s, a.docs[1].username)
                /\ UNCHANGED profiles
           ELSE IF result = "add"
           THEN /\ profiles' = Append(profiles,
                        [username |-> toLowerCase(a.username),
                         password |-> a.password])
                /\ SignedIn(s, toLowerCase(a.username))
           ELSE /\ auth' = [auth EXCEPT ![s].pc = "form", ![s].error = result]
                /\ UNCHANGED <<page, listeners, profiles, currentUser>>
    /\ UNCHANGED <<storeVars, invoicePageVars, voucherPageVars, listVars,
                   dashboardVars, modalVars, tenantVars>>

\* ------------------------------------------- the store, by document path
\* userdata maps the path of a document, `${dataPath}/${collection}/${id}`,
\* to its data; of an invoice the data kept is its paidAmount, of a voucher
\* its amount
CollectionPath(username, coll) == dataPath(username) \o <<coll>>

\* the documents a query of the collection delivers: id -> data
DocsAt(store, collectionPath) ==
    LET n == Len(collectionPath)
        ids == {path[n + 1] : path \in
                    {q \in DOMAIN store :
                        Len(q) = n + 1 /\ SubSeq(q, 1, n) = collectionPath}}
    IN  [id \in ids |-> store[collectionPath \o <<id>>]]

\* the page whose component works on a collection
PageOf(coll) == IF coll = "vouchers" THEN "vouchers" ELSE coll

\* a snapshot of a collection is delivered to a listener of the session
onSnapshot(s, coll) ==
    /\ currentUser[s] # <<>>
    /\ \E l \in listeners : l[1] = s /\ l[2] # "VouchersForInvoiceModal" /\ l[3] = coll
    /\ LET result == [coll |-> coll,
                      docs |-> DocsAt(userdata, CollectionPath(currentUser[s], coll))]
       IN  /\ tenantView[s] # result
           /\ tenantView' = [tenantView EXCEPT ![s] = result]
    /\ UNCHANGED <<page, storeVars, invoicePageVars, voucherPageVars, listVars,
                   dashboardVars, modalVars, listeners, directoryVars, userdata>>

\* addDoc(collection(db, `${dataPath}/${coll}`), data) of a handleSave: the
\* store gives the document an id of its own
addDoc(s, coll, data) ==
    /\ currentUser[s] # <<>>
    /\ coll \in {"invoices", "customers", "services"}
    /\ page[s] = PageOf(coll)
    /\ LET at == CollectionPath(currentUser[s], coll)
           id == MaxOf(DOMAIN DocsAt(userdata, at) \cup {0}) + 1
       IN  userdata' = ((at \o <<id>>) :> data) @@ userdata
    /\ UNCHANGED <<page, storeVars, invoicePageVars, voucherPageVars, listVars,
                   dashboardVars, modalVars, listeners, directoryVars, tenantView>>

\* deleteDoc(doc(db, `${dataPath}/${coll}`, id)) of a handleDelete, on a row
\* of the list delivered
deleteDoc(s, coll, id) ==
    /\ currentUser[s] # <<>>
    /\ coll \in {"invoices", "customers", "services"}
    /\ page[s] = PageOf(coll)
    /\ tenantView[s] # <<>>
    /\ tenantView[s].coll = coll
    /\ id \in DOMAIN tenantView[s].docs
    /\ LET at == CollectionPath(currentUser[s], coll) \o <<id>>
       IN  userdata' = [path \in DOMAIN userdata \ {at} |-> userdata[path]]
    /\ UNCHANGED <<page, storeVars, invoicePageVars, voucherPageVars, listVars,
                   dashboardVars, modalVars, listeners, directoryVars, tenantView>>

\* runTransaction of PaymentVouchers.handleSave, taken as one step: the
\* invoice under `${dataPath}/invoices` is read and updated and the voucher
\* is set under `${dataPath}/vouchers`; a missing invoice aborts
runTransaction(s, invoiceId, amount) ==
    /\ currentUser[s] # <<>>
    /\ page[s] = "vouchers"
    /\ LET invoiceRef == CollectionPath(currentUser[s], "invoices") \o <<invoiceId>>
           vouchersAt == CollectionPath(currentUser[s], "vouchers")
           newVoucherRef == vouchersAt
                \o <<MaxOf(DOMAIN DocsAt(userdata, vouchersAt) \cup {0}) + 1>>
       IN  /\ invoiceRef \in DOMAIN userdata
           /\ userdata' = (newVoucherRef :> amount)
                            @@ [userdata EXCEPT ![invoiceRef] = @ + amount]
    /\ UNCHANGED <<page, storeVars, invoicePageVars, voucherPageVars, listVars,
                   dashboardVars, modalVars, listeners, directoryVars, tenantView>>

\* ------------------------------------------------------ Invoices page
\* onSnapshot callback of the invoices collection
InvoicesSnapshot(s) ==
    /\ <<s, "Invoices", "invoices">> \in listeners
    /\ invSnap[s] # invoices
    /\ invSnap' = [invSnap EXCEPT ![s] = invoices]
    /\ UNCHANGED <<page, storeVars, isModalOpen, currentInvoice, formData, voucherPageVars>>
    /\ UNCHANGED otherVars

\* Invoices.handleAdd, then the effect on [invoice]
handleAdd(s) ==
    /\ page[s] = "invoices"
    /\ ~isModalOpen[s]
    /\ currentInvoice' = [currentInvoice EXCEPT ![s] = NoInvoice]
    /\ isModalOpen' = [isModalOpen EXCEPT ![s] = TRUE]
    /\ formData' = [formData EXCEPT ![s] =
            IF currentInvoice[s] = NoInvoice THEN @ ELSE BlankForm]
    /\ UNCHANGED <<page, storeVars, invSnap, voucherPageVars>>
    /\ UNCHANGED otherVars

\* Invoices.handleEdit on a row of the list, then the effect on [invoice]
handleEdit(s, i) ==
    /\ page[s] = "invoices"
    /\ ~isModalOpen[s]
    /\ i \in DOMAIN invSnap[s]
    /\ LET invoice == [id |-> i] @@ invSnap[s][i] IN
        /\ currentInvoice' = [currentInvoice EXCEPT ![s] = invoice]
        /\ formData' = [formData EXCEPT ![s] =
                IF currentInvoice[s] = invoice THEN @ ELSE WithTotal(invoice)]
    /\ isModalOpen' = [isModalOpen EXCEPT ![s] = TRUE]
    /\ UNCHANGED <<page, storeVars, invSnap, voucherPageVars>>
    /\ UNCHANGED otherVars

\* the modal's onClose
closeModal(s) ==
    /\ page[s] = "invoices"
    /\ isModalOpen[s]
    /\ isModalOpen' = [isModalOpen EXCEPT ![s] = FALSE]
    /\ UNCHANGED <<page, storeVars, invSnap, currentInvoice, formData, voucherPageVars>>
    /\ UNCHANGED otherVars

SetItems(s, items) ==
    /\ formData' = [formData EXCEPT ![s] = WithTotal([@ EXCEPT !.items = items])]
    /\ UNCHANGED <<page, storeVars, invSnap, isModalOpen, currentInvoice, voucherPageVars>>
    /\ UNCHANGED otherVars

\* the date input of the invoice form
handleDateChange(s, date) ==
    /\ page[s] = "invoices"
    /\ isModalOpen[s]
    /\ formData[s].date # date
    /\ formData' = [formData EXCEPT ![s].date = date]
    /\ UNCHANGED <<page, storeVars, invSnap, isModalOpen, currentInvoice, voucherPageVars>>
    /\ UNCHANGED otherVars

\* InvoiceForm.handleServiceChange: a catalogue service, or none (price 0)
handleServiceChange(s, index, price) ==
    /\ page[s] = "invoices"
    /\ isModalOpen[s]
    /\ index \in DOMAIN formData[s].items
    /\ formData[s].items[index].price # price
    /\ SetItems(s, [formData[s].items EXCEPT ![index].price = price])

\* InvoiceForm.handleQuantityChange
handleQuantityChange(s, index, quantity) ==
    /\ page[s] = "invoices"
    /\ isModalOpen[s]
    /\ index \in DOMAIN formData[s].items
    /\ formData[s].items[index].quantity # quantity
    /\ SetItems(s, [formData[s].items EXCEPT ![index].quantity = quantity])

\* InvoiceForm.addItem
addItem(s) ==
    /\ page[s] = "invoices"
    /\ isModalOpen[s]
    /\ SetItems(s, Append(formData[s].items, BlankItem))

\* InvoiceForm.removeItem
removeItem(s, index) ==
    /\ page[s] = "invoices"
    /\ isModalOpen[s]
    /\ index \in DOMAIN formData[s].items
    /\ SetItems(s, SubSeq(formData[s].items, 1, index - 1)
                   \o SubSeq(formData[s].items, index + 1, Len(formData[s].items)))

\* an edit that keeps the remainingAmount of the form instead of deriving it
DataToSaveKeepRemaining(invoiceData) ==
    LET total == invoiceData.total
        paidAmount == FieldOrZero(invoiceData, "paidAmount")
    IN  [total |-> total, paidAmount |-> paidAmount,
         remainingAmount |-> IF "remainingAmount" \in DOMAIN invoiceData
                             THEN invoiceData.remainingAmount
                             ELSE total - paidAmount] @@ invoiceData

\* Invoices.handleSave: dataToSave
DataToSave(invoiceData) ==
    LET total == invoiceData.total
        paidAmount == FieldOrZero(invoiceData, "paidAmount")
    IN  [total |-> total, paidAmount |-> paidAmount,
         remainingAmount |-> total - paidAmount] @@ invoiceData

\* InvoiceForm.handleSubmit -> Invoices.handleSave, new invoice: addDoc
SaveNewInvoice(s) ==
    /\ page[s] = "invoices"
    /\ isModalOpen[s]
    /\ currentInvoice[s].id = 0
    /\ LET newInvoiceNumber ==
               NextNumber(InvoiceNumbers(invSnap[s]), FirstInvoiceNumber)
           document == [invoiceNumber |-> newInvoiceNumber, status |-> Pending]
                       @@ DataToSave(formData[s])
       IN  invoices' = (nextInvoiceId :> document) @@ invoices
    /\ nextInvoiceId' = nextInvoiceId + 1
    /\ isModalOpen' = [isModalOpen EXCEPT ![s] = FALSE]
    /\ UNCHANGED <<page, vouchers, invSnap, currentInvoice, formData, voucherPageVars>>
    /\ UNCHANGED otherVars

\* an edit that numbers the invoice again from the session's snapshot
SaveEditedInvoiceRenumber(s) ==
    /\ page[s] = "invoices"
    /\ isModalOpen[s]
    /\ currentInvoice[s].id # 0
    /\ currentInvoice[s].id \in DOMAIN invoices
    /\ LET i == currentInvoice[s].id
           fields == [invoiceNumber |->
                         NextNumber(InvoiceNumbers(invSnap[s]), FirstInvoiceNumber)]
                     @@ Without(DataToSave(formData[s]), "id")
       IN  /\ invoices' = [invoices EXCEPT ![i] = fields @@ @]
           /\ tx' = Invalidate(tx, i)
    /\ isModalOpen' = [isModalOpen EXCEPT ![s] = FALSE]
    /\ UNCHANGED <<page, nextInvoiceId, vouchers, invSnap, currentInvoice, formData,
                   vchSnap, payForm, outcome>>
    /\ UNCHANGED otherVars

\* InvoiceForm.handleSubmit -> Invoices.handleSave, existing invoice:
\* updateDoc, which rejects (and changes nothing) when the document is gone.
\* The id the form copied from the snapshot is the document's key and is not
\* kept as a field.
SaveEditedInvoice(s) ==
    /\ page[s] = "invoices"
    /\ isModalOpen[s]
    /\ currentInvoice[s].id # 0
    /\ currentInvoice[s].id \in DOMAIN invoices
    /\ LET i == currentInvoice[s].id
           fields == Without(DataToSave(formData[s]), "id")
       IN  /\ invoices' = [invoices EXCEPT ![i] = fields @@ @]
           /\ tx' = Invalidate(tx, i)
    /\ isModalOpen' = [isModalOpen EXCEPT ![s] = FALSE]
    /\ UNCHANGED <<page, nextInvoiceId, vouchers, invSnap, currentInvoice, formData,
                   vchSnap, payForm, outcome>>
    /\ UNCHANGED otherVars

\* a delete that also removes the vouchers of the invoice
handleDeleteCascade(s, i) ==
    /\ page[s] = "invoices"
    /\ ~isModalOpen[s]
    /\ i \in DOMAIN invSnap[s]
    /\ invoices' = [j \in DOMAIN invoices \ {i} |-> invoices[j]]
    /\ vouchers' = SelectSeq(vouchers, LAMBDA v : v.invoiceId # i)
    /\ tx' = Invalidate(tx, i)
    /\ UNCHANGED <<page, nextInvoiceId, invoicePageVars, vchSnap, payForm, outcome>>
    /\ UNCHANGED otherVars

\* a delete that closes the gap in the numbers of the later invoices
handleDeleteRenumber(s, i) ==
    /\ page[s] = "invoices"
    /\ ~isModalOpen[s]
    /\ i \in DOMAIN invSnap[s]
    /\ invoices' = [j \in DOMAIN invoices \ {i} |->
                        IF i \in DOMAIN invoices
                           /\ invoices[j].invoiceNumber > invoices[i].invoiceNumber
                        THEN [invoices[j] EXCEPT !.invoiceNumber = @ - 1]
                        ELSE invoices[j]]
    /\ tx' = Invalidate(tx, i)
    /\ UNCHANGED <<page, nextInvoiceId, vouchers, invoicePageVars, vchSnap, payForm, outcome>>
    /\ UNCHANGED otherVars

\* Invoices.handleDelete (confirmed): deleteDoc
handleDelete(s, i) ==
    /\ page[s] = "invoices"
    /\ ~isModalOpen[s]
    /\ i \in DOMAIN invSnap[s]
    /\ invoices' = [j \in DOMAIN invoices \ {i} |-> invoices[j]]
    /\ tx' = Invalidate(tx, i)
    /\ UNCHANGED <<page, nextInvoiceId, vouchers, invoicePageVars, vchSnap, payForm, outcome>>
    /\ UNCHANGED otherVars

\* Invoices.showVouchers, offered on the rows with a paidAmount above 0: the
\* modal opens and its effect subscribes to the vouchers of the invoice
showVouchers(s, i) ==
    /\ page[s] = "invoices"
    /\ ~isModalOpen[s]
    /\ ~vouchersModalOpen[s]
    /\ i \in DOMAIN invSnap[s]
    /\ FieldOrZero(invSnap[s][i], "paidAmount") > 0
    /\ selectedInvoiceForVouchers' = [selectedInvoiceForVouchers EXCEPT ![s] = i]
    /\ vouchersModalOpen' = [vouchersModalOpen EXCEPT ![s] = TRUE]
    /\ invVouchers' = [invVouchers EXCEPT ![s] =
            IF selectedInvoiceForVouchers[s] = 0 THEN <<>> ELSE @]
    /\ listeners' = listeners \cup {<<s, "VouchersForInvoiceModal", "vouchers">>}
    /\ UNCHANGED <<page, storeVars, invoicePageVars, voucherPageVars, listVars,
                   dashboardVars, directoryVars, tenantVars>>

\* onClose of VouchersForInvoiceModal: isOpen turns false and the cleanup of
\* its effect unsubscribes; the modal stays mounted with the invoice selected
closeVouchersModal(s) ==
    /\ vouchersModalOpen[s]
    /\ vouchersModalOpen' = [vouchersModalOpen EXCEPT ![s] = FALSE]
    /\ listeners' = listeners \ {<<s, "VouchersForInvoiceModal", "vouchers">>}
    /\ UNCHANGED <<page, storeVars, invoicePageVars, voucherPageVars, listVars,
                   dashboardVars, selectedInvoiceForVouchers, invVouchers,
                   directoryVars, tenantVars>>

\* onSnapshot callback of the modal's query where("invoiceId", "==", invoice.id)
ModalVouchersSnapshot(s) ==
    /\ <<s, "VouchersForInvoiceModal", "vouchers">> \in listeners
    /\ LET found == SelectSeq(vouchers,
                LAMBDA v : v.invoiceId = selectedInvoiceForVouchers[s])
       IN  /\ invVouchers[s] # found
           /\ invVouchers' = [invVouchers EXCEPT ![s] = found]
    /\ UNCHANGED <<page, storeVars, invoicePageVars, voucherPageVars, listVars,
                   dashboardVars, vouchersModalOpen, selectedInvoiceForVouchers,
                   listeners, directoryVars, tenantVars>>

\* ------------------------------------------------------- Services page
\* onSnapshot callback of the services collection
ServicesSnapshot(s) ==
    /\ <<s, "Services", "services">> \in listeners
    /\ svcSnap[s] # services
    /\ svcSnap' = [svcSnap EXCEPT ![s] = services]
    /\ UNCHANGED <<page, storeVars, invoicePageVars, voucherPageVars, customers, services,
                   custSnap,
                   dashboardVars, modalVars, listeners, directoryVars, tenantVars>>

\* Services.handleSave of a new service: addDoc
ServicesSave(s) ==
    /\ page[s] = "services"
    /\ services' = services + 1
    /\ UNCHANGED <<page, storeVars, invoicePageVars, voucherPageVars, customers, custSnap, svcSnap,
                   dashboardVars, modalVars, listeners, directoryVars, tenantVars>>

\* Services.handleDelete on a row of the list: deleteDoc
ServicesDelete(s) ==
    /\ page[s] = "services"
    /\ svcSnap[s] > 0
    /\ services > 0
    /\ services' = services - 1
    /\ UNCHANGED <<page, storeVars, invoicePageVars, voucherPageVars, customers, custSnap, svcSnap,
                   dashboardVars, modalVars, listeners, directoryVars, tenantVars>>

\* ------------------------------------------------------ Customers page
\* onSnapshot callback of the customers collection
CustomersSnapshot(s) ==
    /\ <<s, "Customers", "customers">> \in listeners
    /\ custSnap[s] # customers
    /\ custSnap' = [custSnap EXCEPT ![s] = customers]
    /\ UNCHANGED <<page, storeVars, invoicePageVars, voucherPageVars, customers, services,
                   svcSnap, dashboardVars, modalVars, listeners, directoryVars, tenantVars>>

\* Customers.handleSave of a new customer: addDoc
CustomersSave(s) ==
    /\ page[s] = "customers"
    /\ customers' = customers + 1
    /\ UNCHANGED <<page, storeVars, invoicePageVars, voucherPageVars, services, custSnap,
                   svcSnap, dashboardVars, modalVars, listeners, directoryVars, tenantVars>>

\* Customers.handleDelete on a row of the list: deleteDoc
CustomersDelete(s) ==
    /\ page[s] = "customers"
    /\ custSnap[s] > 0
    /\ customers > 0
    /\ customers' = customers - 1
    /\ UNCHANGED <<page, storeVars, invoicePageVars, voucherPageVars, services, custSnap,
                   svcSnap, dashboardVars, modalVars, listeners, directoryVars, tenantVars>>

\* ------------------------------------------------------------- Dashboard
monthNames == <<"January", "February", "March", "April", "May", "June", "July",
                "August", "September", "October", "November", "December">>

\* new Date(date).getMonth()
getMonth(date) == (date \div 100) - 1

\* querySnapshot.docs.map(doc => ({ id: doc.id, ...doc.data() })), in the
\* order of the documents' ids
RECURSIVE DocsFrom(_, _)
DocsFrom(collection, ids) ==
    IF ids = {} THEN <<>>
    ELSE LET i == CHOOSE m \in ids : \A n \in ids : m <= n
         IN  <<[id |-> i] @@ collection[i]>> \o DocsFrom(collection, ids \ {i})

AllDocs(collection) == DocsFrom(collection, DOMAIN collection)

\* allInvoices.reduce((sum, inv) => sum + Number(inv.total), 0)
RECURSIVE TotalOf(_)
TotalOf(docs) == IF docs = <<>> THEN 0 ELSE Head(docs).total + TotalOf(Tail(docs))

\* Array.prototype.sort with (a, b) => new Date(b.date) - new Date(a.date):
\* latest first, equal dates in their earlier order; the array is sorted in place
RECURSIVE SortByDateDesc(_)
SortByDateDesc(docs) ==
    IF docs = <<>> THEN <<>>
    ELSE LET rest == SortByDateDesc(SubSeq(docs, 1, Len(docs) - 1))
             last == docs[Len(docs)]
             before == SelectSeq(rest, LAMBDA d : d.date >= last.date)
             after == SelectSeq(rest, LAMBDA d : d.date < last.date)
         IN  before \o <<last>> \o after

\* .slice(0, 5)
FirstFive(docs) == SubSeq(docs, 1, IF Len(docs) < 5 THEN Len(docs) ELSE 5)

\* the forEach over the invoices that fills monthlySales, and
\* Object.values(monthlySales): one entry per month name, in the order in
\* which the names were first met
RECURSIVE MonthlySales(_, _)
MonthlySales(docs, chart) ==
    IF docs = <<>> THEN chart
    ELSE LET inv == Head(docs)
             monthName == monthNames[getMonth(inv.date) + 1]
             at == {k \in DOMAIN chart : chart[k].name = monthName}
         IN  MonthlySales(Tail(docs),
                IF at = {}
                THEN Append(chart, [name |-> monthName, sales |-> inv.total])
                ELSE [chart EXCEPT ![CHOOSE k \in at : TRUE].sales = @ + inv.total])

\* a fifth of the sales, in hundredths of the currency unit
Fifth(totalSales) == 20 * totalSales

\* totalSales * 0.25, in hundredths of the currency unit (the profit field
\* holds hundredths, the other amounts whole units)
Quarter(totalSales) == 25 * totalSales

\* a customers callback that builds the stats anew
DashboardCustomersSnapshotReset(s) ==
    /\ <<s, "Dashboard", "customers">> \in listeners
    /\ stats' = [stats EXCEPT ![s] = [InitialStats EXCEPT !.customers = customers]]
    /\ UNCHANGED <<page, storeVars, invoicePageVars, voucherPageVars, listVars,
                   recentInvoices, salesData, modalVars, listeners, directoryVars,
                   tenantVars>>

\* onSnapshot callback of the Dashboard's invoices query
DashboardInvoicesSnapshot(s) ==
    /\ <<s, "Dashboard", "invoices">> \in listeners
    /\ LET allInvoices == AllDocs(invoices)
           totalSales == TotalOf(allInvoices)
           sorted == SortByDateDesc(allInvoices)
       IN  /\ recentInvoices' = [recentInvoices EXCEPT ![s] = FirstFive(sorted)]
           /\ salesData' = [salesData EXCEPT ![s] = MonthlySales(sorted, <<>>)]
           /\ stats' = [stats EXCEPT ![s].sales = totalSales,
                                     ![s].profit = Quarter(totalSales),
                                     ![s].invoices = Len(allInvoices)]
    /\ UNCHANGED <<page, storeVars, invoicePageVars, voucherPageVars, listVars,
                   modalVars, listeners, directoryVars, tenantVars>>

\* onSnapshot callback of the Dashboard's customers query
DashboardCustomersSnapshot(s) ==
    /\ <<s, "Dashboard", "customers">> \in listeners
    /\ stats' = [stats EXCEPT ![s].customers = customers]
    /\ UNCHANGED <<page, storeVars, invoicePageVars, voucherPageVars, listVars,
                   recentInvoices, salesData, modalVars, listeners, directoryVars,
                   tenantVars>>

\* ------------------------------------------------ PaymentVouchers page
\* onSnapshot callback of the vouchers collection
VouchersSnapshot(s) ==
    /\ <<s, "PaymentVouchers", "vouchers">> \in listeners
    /\ vchSnap[s] # vouchers
    /\ vchSnap' = [vchSnap EXCEPT ![s] = vouchers]
    /\ UNCHANGED <<page, storeVars, invoicePageVars, payForm, tx, outcome>>
    /\ UNCHANGED otherVars

\* the status filter of the form's invoice query
Payable(invoice) == invoice.status \in {Pending, PartiallyPaid}

\* PaymentVoucherForm: the invoice query after the customer is chosen, then
\* handleInvoiceChange on one invoice of its result
handleInvoiceChange(s, i) ==
    /\ page[s] = "vouchers"
    /\ i \in DOMAIN invoices
    /\ Payable(invoices[i])
    /\ payForm[s] # i
    /\ payForm' = [payForm EXCEPT ![s] = i]
    /\ UNCHANGED <<page, storeVars, invoicePageVars, vchSnap, tx, outcome>>
    /\ UNCHANGED otherVars

Running == {s \in Sessions : tx[s].pc # "idle"}

\* PaymentVoucherForm.handleSubmit -> PaymentVouchers.handleSave: the
\* transaction starts; the new number comes from the vouchers of this render.
\* A session runs one transaction at a time.
handleSubmit(s, amount) ==
    /\ page[s] = "vouchers"
    /\ payForm[s] # 0
    /\ tx[s].pc = "idle"
    /\ tx' = [tx EXCEPT ![s] =
            [IdleTx EXCEPT !.pc = "get", !.invoiceId = payForm[s],
                           !.amount = amount, !.attempts = 1,
                           !.voucherNumber =
                               NextNumber(VoucherNumbers(vchSnap[s]),
                                          FirstVoucherNumber)]]
    /\ outcome' = [outcome EXCEPT ![s] = "none"]
    /\ UNCHANGED <<page, storeVars, invoicePageVars, vchSnap, payForm>>
    /\ UNCHANGED otherVars

\* a transaction that does not test invoiceSnap.exists()
TransactionGetUnchecked(s) ==
    /\ tx[s].pc = "get"
    /\ tx' = [tx EXCEPT ![s].pc = "commit", ![s].fresh = TRUE,
                        ![s].invoiceData =
                            IF tx[s].invoiceId \in DOMAIN invoices
                            THEN invoices[tx[s].invoiceId] ELSE [total |-> 0]]
    /\ UNCHANGED <<page, storeVars, invoicePageVars, vchSnap, payForm, outcome>>
    /\ UNCHANGED otherVars

\* transaction.get(invoiceRef); a missing invoice throws out of the transaction
TransactionGet(s) ==
    /\ tx[s].pc = "get"
    /\ IF tx[s].invoiceId \in DOMAIN invoices
       THEN /\ tx' = [tx EXCEPT ![s].pc = "commit", ![s].fresh = TRUE,
                                ![s].invoiceData = invoices[tx[s].invoiceId]]
            /\ UNCHANGED outcome
       ELSE /\ tx' = [tx EXCEPT ![s] = IdleTx]
            /\ outcome' = [outcome EXCEPT ![s] = "notFound"]
    /\ UNCHANGED <<page, storeVars, invoicePageVars, vchSnap, payForm>>
    /\ UNCHANGED otherVars

\* the remaining amount taken from the paidAmount that was read
PaymentUpdateStaleRemaining(invoiceData, amount) ==
    LET newPaidAmount == FieldOrZero(invoiceData, "paidAmount") + amount
        newRemainingAmount ==
            invoiceData.total - FieldOrZero(invoiceData, "paidAmount")
    IN  [paidAmount |-> newPaidAmount,
         remainingAmount |-> newRemainingAmount,
         status |-> IF newRemainingAmount <= 0 THEN Paid ELSE PartiallyPaid]

\* Paid only for an exact settlement (=== 0 for <= 0)
PaymentUpdateExact(invoiceData, amount) ==
    LET newPaidAmount == FieldOrZero(invoiceData, "paidAmount") + amount
        newRemainingAmount == invoiceData.total - newPaidAmount
    IN  [paidAmount |-> newPaidAmount,
         remainingAmount |-> newRemainingAmount,
         status |-> IF newRemainingAmount = 0 THEN Paid ELSE PartiallyPaid]

\* Paid only for an overpayment (< 0 for <= 0)
PaymentUpdateStrict(invoiceData, amount) ==
    LET newPaidAmount == FieldOrZero(invoiceData, "paidAmount") + amount
        newRemainingAmount == invoiceData.total - newPaidAmount
    IN  [paidAmount |-> newPaidAmount,
         remainingAmount |-> newRemainingAmount,
         status |-> IF newRemainingAmount < 0 THEN Paid ELSE PartiallyPaid]

\* the fields the transaction writes to the invoice
PaymentUpdate(invoiceData, amount) ==
    LET newPaidAmount == FieldOrZero(invoiceData, "paidAmount") + amount
        newRemainingAmount == invoiceData.total - newPaidAmount
    IN  [paidAmount |-> newPaidAmount,
         remainingAmount |-> newRemainingAmount,
         status |-> IF newRemainingAmount <= 0 THEN Paid ELSE PartiallyPaid]

\* the store accepts the commit: the invoice read is unwritten since the get
CanCommit(s) == tx[s].fresh

\* the invoice update committed without the voucher
TransactionCommitInvoiceOnly(s) ==
    /\ tx[s].pc = "commit"
    /\ tx[s].fresh
    /\ LET i == tx[s].invoiceId IN
        /\ invoices' = [invoices EXCEPT ![i] =
                [paidAmount |-> FieldOrZero(@, "paidAmount") + tx[s].amount,
                 remainingAmount |->
                    @.total - (FieldOrZero(@, "paidAmount") + tx[s].amount),
                 status |-> PartiallyPaid] @@ @]
        /\ tx' = [t \in Sessions |->
                    IF t = s THEN IdleTx
                    ELSE IF tx[t].pc = "commit" /\ tx[t].invoiceId = i
                         THEN [tx[t] EXCEPT !.fresh = FALSE,
                                            !.invoiceData = NoInvoice]
                         ELSE tx[t]]
    /\ outcome' = [outcome EXCEPT ![s] = "committed"]
    /\ UNCHANGED <<page, nextInvoiceId, vouchers, invoicePageVars, vchSnap, payForm>>
    /\ UNCHANGED otherVars

\* the store's commit of transaction.update and transaction.set
TransactionCommit(s) ==
    /\ tx[s].pc = "commit"
    /\ CanCommit(s)
    /\ LET i == tx[s].invoiceId IN
        /\ invoices' = [invoices EXCEPT ![i] =
                PaymentUpdate(tx[s].invoiceData, tx[s].amount) @@ @]
        /\ vouchers' = Append(vouchers,
                [invoiceId |-> i, amount |-> tx[s].amount,
                 voucherNumber |-> tx[s].voucherNumber])
        /\ tx' = Invalidate([tx EXCEPT ![s] = IdleTx], i)
    /\ outcome' = [outcome EXCEPT ![s] = "committed"]
    /\ UNCHANGED <<page, nextInvoiceId, invoicePageVars, vchSnap, payForm>>
    /\ UNCHANGED otherVars

\* a refused commit whose voucher is stored all the same
TransactionRetryDirty(s) ==
    /\ tx[s].pc = "commit"
    /\ ~CanCommit(s)
    /\ tx[s].attempts < MaxAttempts
    /\ vouchers' = Append(vouchers,
            [invoiceId |-> tx[s].invoiceId, amount |-> tx[s].amount,
             voucherNumber |-> tx[s].voucherNumber])
    /\ tx' = [tx EXCEPT ![s].pc = "get", ![s].fresh = FALSE,
                        ![s].invoiceData = NoInvoice, ![s].attempts = @ + 1]
    /\ UNCHANGED <<page, invoices, nextInvoiceId, invoicePageVars, vchSnap, payForm,
                   outcome>>
    /\ UNCHANGED otherVars

\* a refused commit that is tried again without counting the attempt
TransactionRetryUncounted(s) ==
    /\ tx[s].pc = "commit"
    /\ ~CanCommit(s)
    /\ tx' = [tx EXCEPT ![s].pc = "get", ![s].fresh = FALSE,
                        ![s].invoiceData = NoInvoice]
    /\ UNCHANGED <<page, storeVars, invoicePageVars, vchSnap, payForm, outcome>>
    /\ UNCHANGED otherVars

\* the commit is refused: the update function runs again
TransactionRetry(s) ==
    /\ tx[s].pc = "commit"
    /\ ~CanCommit(s)
    /\ tx[s].attempts < MaxAttempts
    /\ tx' = [tx EXCEPT ![s].pc = "get", ![s].fresh = FALSE,
                        ![s].invoiceData = NoInvoice, ![s].attempts = @ + 1]
    /\ UNCHANGED <<page, storeVars, invoicePageVars, vchSnap, payForm, outcome>>
    /\ UNCHANGED otherVars

\* the commit is refused on the last attempt: runTransaction rejects
TransactionFail(s) ==
    /\ tx[s].pc = "commit"
    /\ ~CanCommit(s)
    /\ tx[s].attempts >= MaxAttempts
    /\ tx' = [tx EXCEPT ![s] = IdleTx]
    /\ outcome' = [outcome EXCEPT ![s] = "conflict"]
    /\ UNCHANGED <<page, storeVars, invoicePageVars, vchSnap, payForm>>
    /\ UNCHANGED otherVars

\* the promise PaymentVouchers.handleSave returns: the catch block logs the
\* error and returns, so the promise is fulfilled however the transaction ended
handleSavePromise(s) ==
    IF tx[s].pc # "idle" THEN "pending"
    ELSE IF outcome[s] = "none" THEN "none"
    ELSE "fulfilled"

\* ------------------------------------------------------------------ Next
\* at most MaxInvoices invoices are created in a run, of at most MaxItems items
InvoicesStep(s) ==
    \/ InvoicesSnapshot(s)
    \/ handleAdd(s)
    \/ \E i \in InvoiceIds : handleEdit(s, i)
    \/ closeModal(s)
    \/ \E index \in 1..MaxItems, price \in Prices \cup {0} :
            handleServiceChange(s, index, price)
    \/ \E index \in 1..MaxItems, quantity \in Quantities :
            handleQuantityChange(s, index, quantity)
    \/ (Len(formData[s].items) < MaxItems /\ addItem(s))
    \/ \E index \in 1..MaxItems : removeItem(s, index)
    \/ (nextInvoiceId <= MaxInvoices /\ SaveNewInvoice(s))
    \/ SaveEditedInvoice(s)
    \/ \E i \in InvoiceIds : handleDelete(s, i)

\* at most limit payments are submitted in a run
PaymentsStep(s, amounts, limit) ==
    \/ VouchersSnapshot(s)
    \/ \E i \in InvoiceIds : handleInvoiceChange(s, i)
    \/ \E amount \in amounts :
            /\ Len(vouchers) + Cardinality(Running) < limit
            /\ handleSubmit(s, amount)
    \/ TransactionGet(s)
    \/ TransactionCommit(s)
    \/ TransactionRetry(s)
    \/ TransactionFail(s)

\* the pages a session visits: session 1 keeps the invoices, the other
\* sessions record payments
Desk(s) == IF s = 1 THEN {"dashboard", "invoices"} ELSE {"dashboard", "vouchers"}

Next ==
    \/ \E s \in Sessions : \E p \in Desk(s) : navigate(s, p)
    \/ \E s \in Sessions : InvoicesStep(s)
    \/ \E s \in Sessions : PaymentsStep(s, Amounts, MaxVouchers)

Spec == Init /\ [][Next]_vars

\* ------------------------------- one form: lines, services, quantities
FormPrices == {0, 150, 300}

\* session 1 builds invoices of up to MaxLines lines and edits them
NextForm ==
    \/ \E p \in {"dashboard", "invoices"} : navigate(1, p)
    \/ InvoicesSnapshot(1)
    \/ handleAdd(1)
    \/ \E i \in InvoiceIds : handleEdit(1, i)
    \/ closeModal(1)
    \/ \E index \in 1..MaxLines, price \in FormPrices :
            handleServiceChange(1, index, price)
    \/ \E index \in 1..MaxLines, quantity \in Quantities :
            handleQuantityChange(1, index, quantity)
    \/ (Len(formData[1].items) < MaxLines /\ addItem(1))
    \/ \E index \in 1..MaxLines : removeItem(1, index)
    \/ (nextInvoiceId <= MaxInvoices /\ SaveNewInvoice(1))
    \/ SaveEditedInvoice(1)

SpecForm == Init /\ [][NextForm]_vars

\* ----------------------------- an invoice is created and then paid once
TripQuantities == {1, 2, 3}

NextTrip ==
    \/ \E s \in Sessions : \E p \in Desk(s) : navigate(s, p)
    \/ \E s \in Sessions :
        \/ InvoicesSnapshot(s)
        \/ handleAdd(s)
        \/ closeModal(s)
        \/ \E price \in Prices \cup {0} : handleServiceChange(s, 1, price)
        \/ \E quantity \in TripQuantities : handleQuantityChange(s, 1, quantity)
        \/ (nextInvoiceId <= MaxInvoices /\ SaveNewInvoice(s))
        \/ VouchersSnapshot(s)
        \/ \E i \in InvoiceIds : handleInvoiceChange(s, i)
        \/ (Len(vouchers) + Cardinality(Running) < 1 /\ handleSubmit(s, 150))
        \/ TransactionGet(s)
        \/ TransactionCommit(s)

SpecTrip == Init /\ [][NextTrip]_vars

\* ------------------------- the dashboard of one session, the desk of another
Dates == {115, 210, 315}

\* session 1 keeps invoices and customers; every session on the dashboard is
\* notified of the changes
NextDash ==
    \/ \E p \in {"dashboard", "invoices", "customers"} : navigate(1, p)
    \/ InvoicesSnapshot(1)
    \/ handleAdd(1)
    \/ closeModal(1)
    \/ \E price \in Prices \cup {0} : handleServiceChange(1, 1, price)
    \/ \E date \in Dates : handleDateChange(1, date)
    \/ (nextInvoiceId <= MaxCreated /\ SaveNewInvoice(1))
    \/ \E i \in 1..MaxCreated : handleDelete(1, i)
    \/ CustomersSnapshot(1)
    \/ (customers < MaxCustomers /\ CustomersSave(1))
    \/ CustomersDelete(1)
    \/ \E s \in Sessions : DashboardInvoicesSnapshot(s)
    \/ \E s \in Sessions : DashboardCustomersSnapshot(s)

SpecDash == Init /\ [][NextDash]_vars

\* ------------------------------------- invoice desk only, every session
\* the documents that can exist when at most MaxCreated invoices are created
CreatedIds == 1..MaxCreated

\* every session creates, edits and deletes invoices from its own snapshot
NextDesk ==
    \/ \E s \in Sessions : \E p \in {"dashboard", "invoices"} : navigate(s, p)
    \/ \E s \in Sessions :
        \/ InvoicesSnapshot(s)
        \/ handleAdd(s)
        \/ \E i \in CreatedIds : handleEdit(s, i)
        \/ closeModal(s)
        \/ \E index \in 1..MaxItems, price \in Prices \cup {0} :
                handleServiceChange(s, index, price)
        \/ (nextInvoiceId <= MaxCreated /\ SaveNewInvoice(s))
        \/ SaveEditedInvoice(s)
        \/ \E i \in CreatedIds : handleDelete(s, i)

SpecDesk == Init /\ [][NextDesk]_vars

\* ------------------------------------------- payments only, every session
Items == [quantity : Quantities, price : Prices \cup {0}]
ItemLists == UNION {[1..n -> Items] : n \in 0..MaxItems}

\* the document SaveNewInvoice stores for a form with these items
CreatedInvoice(items, number) ==
    [invoiceNumber |-> number, status |-> Pending]
    @@ DataToSave([date |-> Today, items |-> items, total |-> calculateTotal(items)])

\* every invoice has been created and none has been paid
InitPay ==
    /\ page = [s \in Sessions |-> "dashboard"]
    /\ \E choice \in [InvoiceIds -> ItemLists] :
        invoices = [i \in InvoiceIds |->
                        CreatedInvoice(choice[i], FirstInvoiceNumber + i - 1)]
    /\ nextInvoiceId = MaxInvoices + 1
    /\ vouchers = <<>>
    /\ invSnap = [s \in Sessions |-> <<>>]
    /\ vchSnap = [s \in Sessions |-> <<>>]
    /\ isModalOpen = [s \in Sessions |-> FALSE]
    /\ currentInvoice = [s \in Sessions |-> NoInvoice]
    /\ formData = [s \in Sessions |-> BlankForm]
    /\ payForm = [s \in Sessions |-> 0]
    /\ tx = [s \in Sessions |-> IdleTx]
    /\ outcome = [s \in Sessions |-> "none"]
    /\ InitOther

NextPay ==
    \/ \E s \in Sessions : \E p \in {"dashboard", "vouchers"} : navigate(s, p)
    \/ \E s \in Sessions : PaymentsStep(s, PayAmounts, MaxPayments)

SpecPay == InitPay /\ [][NextPay]_vars

\* ------------------------------- one allocation from any snapshot
\* the numbers the invoices of a collection can carry after creations and
\* deletions, and the numbers of the first vouchers
NumberPool == FirstInvoiceNumber..(FirstInvoiceNumber + 5)
VoucherPool == FirstVoucherNumber..(FirstVoucherNumber + 2)

\* the k-th smallest number of a set
RECURSIVE KthOf(_, _)
KthOf(S, k) ==
    LET least == CHOOSE m \in S : \A n \in S : m <= n
    IN  IF k = 1 THEN least ELSE KthOf(S \ {least}, k - 1)

\* the invoices left with these numbers, by creation order
NumberedInvoices(numbers) ==
    [i \in 1..Cardinality(numbers) |-> CreatedInvoice(<<BlankItem>>, KthOf(numbers, i))]

\* vouchers are never removed: a number above the floor was allocated from
\* a snapshot holding the number before it
Allocatable(numbers) ==
    \A k \in DOMAIN numbers :
        \/ numbers[k] = FirstVoucherNumber
        \/ \E l \in 1..(k - 1) : numbers[l] = numbers[k] - 1

\* vouchers of 50 on invoice 1 with these numbers
NumberedVouchers(numbers) ==
    [k \in DOMAIN numbers |->
        [invoiceId |-> 1, amount |-> 50, voucherNumber |-> numbers[k]]]

\* session 1 has the form of a new invoice open and session 2 has chosen
\* invoice 1 in the voucher form, each with a delivered snapshot
InitNum ==
    /\ page = [s \in Sessions |-> IF s = 1 THEN "invoices"
                                  ELSE IF s = 2 THEN "vouchers" ELSE "dashboard"]
    /\ \E numbers \in SUBSET NumberPool :
        /\ invoices = NumberedInvoices(numbers)
        /\ nextInvoiceId = Cardinality(numbers) + 1
    /\ \E numbers \in UNION {[1..n -> VoucherPool] : n \in 0..3} :
        /\ Allocatable(numbers)
        /\ vouchers = NumberedVouchers(numbers)
    /\ invSnap = [s \in Sessions |-> IF s = 1 THEN invoices ELSE <<>>]
    /\ vchSnap = [s \in Sessions |-> IF s = 2 THEN vouchers ELSE <<>>]
    /\ isModalOpen = [s \in Sessions |-> s = 1]
    /\ currentInvoice = [s \in Sessions |-> NoInvoice]
    /\ formData = [s \in Sessions |-> BlankForm]
    /\ payForm = [s \in Sessions |-> IF s = 2 THEN 1 ELSE 0]
    /\ tx = [s \in Sessions |-> IdleTx]
    /\ outcome = [s \in Sessions |-> "none"]
    /\ InitOther

NextNum ==
    \E s \in Sessions :
        \/ (isModalOpen[s] /\ SaveNewInvoice(s))
        \/ (outcome[s] = "none" /\ handleSubmit(s, 50))
        \/ TransactionGet(s)
        \/ TransactionCommit(s)

SpecNum == InitNum /\ [][NextNum]_vars

\* --------------------------- several invoices: payments and deletions
\* every invoice of CreatedIds has been created for 100 and none has been paid
InitLedger ==
    /\ page = [s \in Sessions |-> "dashboard"]
    /\ invoices = [i \in CreatedIds |->
                    CreatedInvoice(<<[quantity |-> 2, price |-> 50]>>,
                                   FirstInvoiceNumber + i - 1)]
    /\ nextInvoiceId = MaxCreated + 1
    /\ vouchers = <<>>
    /\ invSnap = [s \in Sessions |-> <<>>]
    /\ vchSnap = [s \in Sessions |-> <<>>]
    /\ isModalOpen = [s \in Sessions |-> FALSE]
    /\ currentInvoice = [s \in Sessions |-> NoInvoice]
    /\ formData = [s \in Sessions |-> BlankForm]
    /\ payForm = [s \in Sessions |-> 0]
    /\ tx = [s \in Sessions |-> IdleTx]
    /\ outcome = [s \in Sessions |-> "none"]
    /\ InitOther

\* every session deletes invoices and records payments of 50
NextLedger ==
    \/ \E s \in Sessions : \E p \in Pages : navigate(s, p)
    \/ \E s \in Sessions :
        \/ InvoicesSnapshot(s)
        \/ \E i \in CreatedIds : handleDelete(s, i)
        \/ VouchersSnapshot(s)
        \/ \E i \in CreatedIds : handleInvoiceChange(s, i)
        \/ (Len(vouchers) + Cardinality(Running) < MaxVouchers /\ handleSubmit(s, 50))
        \/ TransactionGet(s)
        \/ TransactionCommit(s)
        \/ TransactionRetry(s)
        \/ TransactionFail(s)

SpecLedger == InitLedger /\ [][NextLedger]_vars

\* ------------------------------------- one transaction on any snapshot
\* a stored invoice with any paidAmount, or none (a document written without
\* the payment fields)
StoredInvoice(items, paid) ==
    LET created == CreatedInvoice(items, FirstInvoiceNumber) IN
    IF paid = {} THEN Without(Without(created, "paidAmount"), "remainingAmount")
    ELSE LET paidAmount == CHOOSE x \in paid : TRUE
             remaining == created.total - paidAmount
         IN  [paidAmount |-> paidAmount, remainingAmount |-> remaining,
              status |-> IF paidAmount = 0 THEN Pending
                         ELSE IF remaining <= 0 THEN Paid ELSE PartiallyPaid]
             @@ created

CalcPaid == {{}, {0}, {50}, {100}, {150}}

\* session 2 has just submitted a voucher for invoice 1
InitCalc ==
    /\ page = [s \in Sessions |-> IF s = 2 THEN "vouchers" ELSE "dashboard"]
    /\ \E items \in ItemLists, paid \in CalcPaid :
        invoices = (1 :> StoredInvoice(items, paid))
    /\ nextInvoiceId = 2
    /\ vouchers = <<>>
    /\ invSnap = [s \in Sessions |-> <<>>]
    /\ vchSnap = [s \in Sessions |-> <<>>]
    /\ isModalOpen = [s \in Sessions |-> FALSE]
    /\ currentInvoice = [s \in Sessions |-> NoInvoice]
    /\ formData = [s \in Sessions |-> BlankForm]
    /\ payForm = [s \in Sessions |-> IF s = 2 THEN 1 ELSE 0]
    /\ \E amount \in CalcAmounts :
        tx = [s \in Sessions |->
                IF s = 2
                THEN [IdleTx EXCEPT !.pc = "get", !.invoiceId = 1,
                                    !.amount = amount, !.attempts = 1,
                                    !.voucherNumber = FirstVoucherNumber]
                ELSE IdleTx]
    /\ outcome = [s \in Sessions |-> "none"]
    /\ InitOther

NextCalc == \E s \in Sessions : TransactionGet(s) \/ TransactionCommit(s)

SpecCalc == InitCalc /\ [][NextCalc]_vars

\* ------------------------- payments racing edits, with progress
\* the invoices have been created for 100; session 1 is on the invoices
\* page, the others on the vouchers page
InitRace ==
    /\ page = [s \in Sessions |-> IF s = 1 THEN "invoices" ELSE "vouchers"]
    /\ invoices = [i \in InvoiceIds |->
                    CreatedInvoice(<<[quantity |-> 2, price |-> 50]>>,
                                   FirstInvoiceNumber + i - 1)]
    /\ nextInvoiceId = MaxInvoices + 1
    /\ vouchers = <<>>
    /\ invSnap = [s \in Sessions |-> <<>>]
    /\ vchSnap = [s \in Sessions |-> <<>>]
    /\ isModalOpen = [s \in Sessions |-> FALSE]
    /\ currentInvoice = [s \in Sessions |-> NoInvoice]
    /\ formData = [s \in Sessions |-> BlankForm]
    /\ payForm = [s \in Sessions |-> 0]
    /\ tx = [s \in Sessions |-> IdleTx]
    /\ outcome = [s \in Sessions |-> "none"]
    /\ InitOther

\* a step of the transaction a session runs
TransactionStep(s) ==
    \/ TransactionGet(s)
    \/ TransactionCommit(s)
    \/ TransactionRetry(s)
    \/ TransactionFail(s)

\* session 1 edits and deletes invoices, without end; the other sessions
\* record up to MaxPayments payments
NextRace ==
    \/ InvoicesSnapshot(1)
    \/ \E i \in InvoiceIds : handleEdit(1, i)
    \/ \E q \in Quantities : handleQuantityChange(1, 1, q)
    \/ SaveEditedInvoice(1)
    \/ \E i \in InvoiceIds : handleDelete(1, i)
    \/ \E s \in Sessions \ {1} : VouchersSnapshot(s)
    \/ \E s \in Sessions \ {1} : \E i \in InvoiceIds : handleInvoiceChange(s, i)
    \/ \E s \in Sessions \ {1} :
            /\ Len(vouchers) + Cardinality(Running) < MaxPayments
            /\ handleSubmit(s, 50)
    \/ \E s \in Sessions : TransactionStep(s)

\* runTransaction goes on with its attempt whatever the other sessions do
SpecRace ==
    /\ InitRace
    /\ [][NextRace]_vars
    /\ \A s \in Sessions : WF_vars(TransactionStep(s))

\* ------------------------------------ every page, modal and sign-out
AllPages == {"dashboard", "invoices", "customers", "services", "vouchers"}

\* an invoice of 100 with one voucher of 50 is in the store
InitScopes ==
    /\ page = [s \in Sessions |-> "dashboard"]
    /\ invoices = (1 :> StoredInvoice(<<[quantity |-> 2, price |-> 50]>>, {50}))
    /\ nextInvoiceId = 2
    /\ vouchers = <<[invoiceId |-> 1, amount |-> 50, voucherNumber |-> FirstVoucherNumber]>>
    /\ invSnap = [s \in Sessions |-> <<>>]
    /\ vchSnap = [s \in Sessions |-> <<>>]
    /\ isModalOpen = [s \in Sessions |-> FALSE]
    /\ currentInvoice = [s \in Sessions |-> NoInvoice]
    /\ formData = [s \in Sessions |-> BlankForm]
    /\ payForm = [s \in Sessions |-> 0]
    /\ tx = [s \in Sessions |-> IdleTx]
    /\ outcome = [s \in Sessions |-> "none"]
    /\ InitOther

\* the deliveries to every scope of a session
Deliveries(s) ==
    \/ InvoicesSnapshot(s)
    \/ VouchersSnapshot(s)
    \/ CustomersSnapshot(s)
    \/ ServicesSnapshot(s)
    \/ DashboardInvoicesSnapshot(s)
    \/ DashboardCustomersSnapshot(s)
    \/ ModalVouchersSnapshot(s)

\* every session opens and closes every scope; session 1 changes the store
NextScopes ==
    \/ \E s \in Sessions : \E p \in AllPages : navigate(s, p)
    \/ \E s \in Sessions : handleLogout(s)
    \/ \E s \in Sessions : handleLoginSuccess(s, Tenant)
    \/ \E s \in Sessions : \E i \in InvoiceIds : showVouchers(s, i)
    \/ \E s \in Sessions : closeVouchersModal(s)
    \/ \E s \in Sessions : Deliveries(s)
    \/ (customers < MaxCustomers /\ CustomersSave(1))
    \/ CustomersDelete(1)
    \/ (services < MaxServices /\ ServicesSave(1))
    \/ ServicesDelete(1)
    \/ \E i \in InvoiceIds : handleDelete(1, i)

SpecScopes == InitScopes /\ [][NextScopes]_vars

\* ---------------------------------------------- sign-in and registration
Names == {<<"a", "b">>, <<"A", "b">>, <<"a", "-">>, <<>>}
Passwords == {Secret, <<"s", "e", "c">>}

\* nobody is registered and every session shows AuthPage
InitAuth ==
    /\ page = [s \in Sessions |-> "auth"]
    /\ invoices = <<>>
    /\ nextInvoiceId = 1
    /\ vouchers = <<>>
    /\ invSnap = [s \in Sessions |-> <<>>]
    /\ vchSnap = [s \in Sessions |-> <<>>]
    /\ isModalOpen = [s \in Sessions |-> FALSE]
    /\ currentInvoice = [s \in Sessions |-> NoInvoice]
    /\ formData = [s \in Sessions |-> BlankForm]
    /\ payForm = [s \in Sessions |-> 0]
    /\ tx = [s \in Sessions |-> IdleTx]
    /\ outcome = [s \in Sessions |-> "none"]
    /\ customers = 0
    /\ services = 0
    /\ custSnap = [s \in Sessions |-> 0]
    /\ svcSnap = [s \in Sessions |-> 0]
    /\ stats = [s \in Sessions |-> InitialStats]
    /\ recentInvoices = [s \in Sessions |-> <<>>]
    /\ salesData = [s \in Sessions |-> <<>>]
    /\ vouchersModalOpen = [s \in Sessions |-> FALSE]
    /\ selectedInvoiceForVouchers = [s \in Sessions |-> 0]
    /\ invVouchers = [s \in Sessions |-> <<>>]
    /\ listeners = {}
    /\ profiles = <<>>
    /\ currentUser = [s \in Sessions |-> <<>>]
    /\ auth = [s \in Sessions |-> BlankAuth]
    /\ userdata = <<>>
    /\ tenantView = [s \in Sessions |-> <<>>]

\* the registrations that have been queried and may still add a profile
Registering == {s \in Sessions : auth[s].pc = "queried" /\ ~auth[s].isLogin}

\* at most MaxProfiles profiles are added in a run
NextAuth ==
    \/ \E s \in Sessions : \E username \in Names : \E password \in Passwords :
            AuthSubmit(s, username, password, TRUE)
    \/ \E s \in Sessions : \E username \in Names : \E password \in Passwords :
            /\ Len(profiles) + Cardinality(Registering) < MaxProfiles
            /\ AuthSubmit(s, username, password, FALSE)
    \/ \E s \in Sessions : AuthResolve(s)
    \/ \E s \in Sessions : handleLogout(s)

SpecAuth == InitAuth /\ [][NextAuth]_vars

\* ------------------------------------------ two tenants in one store
Usernames == {Tenant, OtherTenant}
Collections == {"invoices", "customers", "vouchers"}

\* both tenants are registered; each session is signed in as one of them
InitTenants ==
    /\ page = [s \in Sessions |-> "dashboard"]
    /\ invoices = <<>>
    /\ nextInvoiceId = 1
    /\ vouchers = <<>>
    /\ invSnap = [s \in Sessions |-> <<>>]
    /\ vchSnap = [s \in Sessions |-> <<>>]
    /\ isModalOpen = [s \in Sessions |-> FALSE]
    /\ currentInvoice = [s \in Sessions |-> NoInvoice]
    /\ formData = [s \in Sessions |-> BlankForm]
    /\ payForm = [s \in Sessions |-> 0]
    /\ tx = [s \in Sessions |-> IdleTx]
    /\ outcome = [s \in Sessions |-> "none"]
    /\ customers = 0
    /\ services = 0
    /\ custSnap = [s \in Sessions |-> 0]
    /\ svcSnap = [s \in Sessions |-> 0]
    /\ stats = [s \in Sessions |-> InitialStats]
    /\ recentInvoices = [s \in Sessions |-> <<>>]
    /\ salesData = [s \in Sessions |-> <<>>]
    /\ vouchersModalOpen = [s \in Sessions |-> FALSE]
    /\ selectedInvoiceForVouchers = [s \in Sessions |-> 0]
    /\ invVouchers = [s \in Sessions |-> <<>>]
    /\ listeners = UNION {Subscriptions(s, page[s]) : s \in Sessions}
    /\ profiles = <<[username |-> Tenant, password |-> Secret],
                    [username |-> OtherTenant, password |-> Secret]>>
    /\ currentUser = [s \in Sessions |-> IF s = 1 THEN Tenant ELSE OtherTenant]
    /\ auth = [s \in Sessions |-> BlankAuth]
    /\ userdata = <<>>
    /\ tenantView = [s \in Sessions |-> <<>>]

\* what a session does to the store of its user
StoreStep(s) ==
    \/ \E coll \in Collections : onSnapshot(s, coll)
    \/ \E coll \in Collections :
            /\ Cardinality(DOMAIN DocsAt(userdata, CollectionPath(currentUser[s], coll)))
                    < MaxTenantDocs
            /\ addDoc(s, coll, 0)
    \/ \E coll \in Collections : \E id \in 1..MaxTenantDocs : deleteDoc(s, coll, id)
    \/ \E id \in 1..MaxTenantDocs :
            /\ Cardinality(DOMAIN DocsAt(userdata, CollectionPath(currentUser[s], "vouchers")))
                    < MaxTenantDocs
            /\ runTransaction(s, id, 50)

NextTenants ==
    \/ \E s \in Sessions : \E p \in {"invoices", "customers", "vouchers"} : navigate(s, p)
    \/ handleLogout(2)
    \/ \E user \in Usernames : handleLoginSuccess(2, user)
    \/ \E s \in Sessions : StoreStep(s)

SpecTenants == InitTenants /\ [][NextTenants]_vars

\* ================================================================ claims
\* the amounts of the vouchers recorded against invoice i, in order
RECURSIVE AmountsFor(_, _)
AmountsFor(q, i) ==
    IF q = <<>> THEN <<>>
    ELSE (IF Head(q).invoiceId = i THEN <<Head(q).amount>> ELSE <<>>)
         \o AmountsFor(Tail(q), i)

SumVouchers(i) == SumSeq(AmountsFor(vouchers, i))

\* this step stores one more voucher
VoucherAdded == Len(vouchers') = Len(vouchers) + 1
NewVoucher == vouchers'[Len(vouchers')]

\* this step ends the transaction of session s
TransactionEnds(s) == tx[s].pc # "idle" /\ tx'[s].pc = "idle"

\* C1: every existing invoice's paidAmount is the sum of the amounts of the
\* vouchers recorded against it, under every interleaving of invoice
\* creation, edit, deletion and payment.
C1_PaidIsVoucherSum ==
    \A i \in DOMAIN invoices : invoices[i].paidAmount = SumVouchers(i)

\* a commit is computed from the snapshot the store still holds
C2_CommitsFromCurrentSnapshot ==
    \A s \in Sessions :
        (TransactionEnds(s) /\ VoucherAdded)
            => /\ tx[s].invoiceId \in DOMAIN invoices
               /\ tx[s].invoiceData = invoices[tx[s].invoiceId]

C2_TwoFiftiesMakeHundred ==
    \A i \in DOMAIN invoices :
        (invoices[i].total = 100 /\ AmountsFor(vouchers, i) = <<50, 50>>)
            => invoices[i].paidAmount = 100

\* C2: concurrent payments on one invoice serialize.  A payment is committed
\* only from the snapshot the store still holds, so no commit overwrites
\* another's update; two payments of 50 on an invoice of 100 leave 100 paid.
C2_PaymentsSerialize ==
    [][C2_CommitsFromCurrentSnapshot]_vars /\ [](C2_TwoFiftiesMakeHundred)

\* a second attempt that has read the 50 paid by the other session
C2_Witness ==
    \E s \in Sessions :
        /\ tx[s].pc = "commit" /\ tx[s].fresh /\ tx[s].attempts = 2
        /\ tx[s].amount = 50
        /\ tx[s].invoiceData.total = 100
        /\ tx[s].invoiceData.paidAmount = 50
        /\ AmountsFor(vouchers, tx[s].invoiceId) = <<50>>

\* C3: in a run of payments only, after every call the invoice's
\* remainingAmount is total - paidAmount and its paidAmount is the paidAmount
\* it started with (0 for a created invoice) plus the committed amounts.
C3_PaymentSequence ==
    \A i \in DOMAIN invoices :
        /\ invoices[i].remainingAmount = invoices[i].total - invoices[i].paidAmount
        /\ invoices[i].paidAmount = 0 + SumVouchers(i)

C3_Witness ==
    \E i \in DOMAIN invoices :
        /\ Len(AmountsFor(vouchers, i)) = 3
        /\ \A s \in Sessions : outcome[s] = "committed"

\* C4: every stored invoice has remainingAmount = total - paidAmount, also
\* after an edit saved from a form that was opened before a payment.
C4_RemainingIsTotalMinusPaid ==
    \A i \in DOMAIN invoices :
        invoices[i].remainingAmount = invoices[i].total - invoices[i].paidAmount

\* an edit has put back the paidAmount of before a payment, with other items
C4_Witness ==
    \E i \in DOMAIN invoices :
        /\ AmountsFor(vouchers, i) = <<50>>
        /\ invoices[i].paidAmount = 0
        /\ invoices[i].total = 100
        /\ invoices[i].remainingAmount = 100

\* C5: the status of every stored invoice that is not Overdue follows from
\* its amounts: Paid iff remainingAmount <= 0, PartiallyPaid iff
\* 0 < paidAmount < total, and Pending otherwise.
C5_StatusFollowsAmounts ==
    \A i \in DOMAIN invoices :
        LET inv == invoices[i]
            partial == 0 < inv.paidAmount /\ inv.paidAmount < inv.total
        IN  inv.status # Overdue =>
                /\ inv.status = Paid <=> inv.remainingAmount <= 0
                /\ inv.status = PartiallyPaid <=> partial
                /\ inv.status = Pending <=> (inv.remainingAmount > 0 /\ ~partial)

\* a voucher is stored only by a committing transaction, which updates its
\* invoice in the same step; a transaction that fails writes nothing
C6_Step ==
    /\ VoucherAdded =>
        \E s \in Sessions :
            /\ TransactionEnds(s) /\ outcome'[s] = "committed"
            /\ NewVoucher.invoiceId = tx[s].invoiceId
            /\ NewVoucher.amount = tx[s].amount
    /\ \A s \in Sessions :
        TransactionEnds(s) =>
            IF outcome'[s] = "committed"
            THEN LET i == tx[s].invoiceId IN
                 /\ VoucherAdded
                 /\ i \in DOMAIN invoices /\ i \in DOMAIN invoices'
                 /\ invoices'[i].paidAmount =
                        invoices[i].paidAmount + tx[s].amount
                 /\ invoices'[i].remainingAmount =
                        invoices[i].total - invoices'[i].paidAmount
                 /\ invoices'[i].status \in {Paid, PartiallyPaid}
            ELSE invoices' = invoices /\ vouchers' = vouchers

\* C6: the invoice update and the new voucher of one payment appear in one
\* step: no step stores the voucher without the update or the update without
\* the voucher, and a transaction that does not commit writes nothing.
C6_PaymentIsAtomic == [][C6_Step]_vars

C6_Witness ==
    \E s \in Sessions :
        /\ outcome[s] = "committed"
        /\ \E i \in DOMAIN invoices :
            /\ AmountsFor(vouchers, i) = <<50>>
            /\ invoices[i].paidAmount = 50
            /\ invoices[i].status = PartiallyPaid

\* a read that finds no invoice ends the transaction; a voucher is stored
\* only for an invoice in the store
C7_Step ==
    /\ \A s \in Sessions :
        (tx[s].pc = "get" /\ tx[s].invoiceId \notin DOMAIN invoices
            /\ tx'[s] # tx[s])
            => /\ tx'[s].pc = "idle"
               /\ outcome'[s] = "notFound"
               /\ invoices' = invoices
               /\ vouchers' = vouchers
    /\ VoucherAdded =>
            /\ NewVoucher.invoiceId \in DOMAIN invoices
            /\ NewVoucher.invoiceId \in DOMAIN invoices'

\* C7: a payment whose invoice is missing when the transaction reads it
\* fails and writes nothing; every voucher is stored for an invoice that
\* exists in the step that stores it.
C7_MissingInvoiceAborts == [][C7_Step]_vars

\* the invoice chosen in the voucher form was deleted before the payment
C7_Witness ==
    \E s \in Sessions :
        /\ outcome[s] = "notFound"
        /\ payForm[s] # 0
        /\ payForm[s] \notin DOMAIN invoices
        /\ vouchers = <<>>

\* C8: a payment of a zero or negative amount is refused, so no stored
\* voucher has an amount <= 0.
C8_VoucherAmountsPositive ==
    \A k \in DOMAIN vouchers : vouchers[k].amount > 0

\* a payment above the remaining amount passes the read and commits
C9_Step ==
    \A s \in Sessions :
        LET i == tx[s].invoiceId IN
        /\ (tx[s].pc = "get" /\ i \in DOMAIN invoices /\ tx'[s] # tx[s]
                /\ tx[s].amount > invoices[i].remainingAmount)
            => tx'[s].pc = "commit"
        /\ (tx[s].pc = "commit" /\ tx[s].fresh /\ tx'[s].pc # "commit"
                /\ tx[s].amount > invoices[i].remainingAmount)
            => /\ outcome'[s] = "committed"
               /\ VoucherAdded
               /\ invoices'[i].remainingAmount < 0
               /\ invoices'[i].status = Paid

\* C9: a payment of more than the remaining amount, also on an invoice that
\* is already Paid, is not refused: it goes on to its commit, and its commit
\* leaves remainingAmount < 0 and status Paid.
C9_OverpaymentAccepted == [][C9_Step]_vars

\* an invoice of 50 paid twice: the second payment found it Paid
C9_Witness ==
    \E i \in DOMAIN invoices :
        /\ invoices[i].total = 50
        /\ AmountsFor(vouchers, i) = <<50, 50>>
        /\ invoices[i].remainingAmount = -50
        /\ invoices[i].status = Paid

\* the fields of the invoice after a step that stores a voucher
C10_Step ==
    VoucherAdded =>
        LET i == NewVoucher.invoiceId
            old == invoices[i]
            new == invoices'[i]
            oldPaid == IF "paidAmount" \in DOMAIN old THEN old.paidAmount ELSE 0
        IN  /\ new.paidAmount = oldPaid + NewVoucher.amount
            /\ new.total = old.total
            /\ new.remainingAmount = old.total - (oldPaid + NewVoucher.amount)
            /\ new.remainingAmount <= 0 => new.status = Paid
            /\ new.remainingAmount > 0 => new.status = PartiallyPaid
            /\ new.status # Pending

\* C10: a committed payment writes paidAmount = old paidAmount + amount (0
\* for a missing paidAmount), remainingAmount = total - new paidAmount and
\* status Paid if that is <= 0, PartiallyPaid otherwise; never Pending.
C10_PaymentArithmetic == [][C10_Step]_vars

\* a payment of 50 has settled an invoice of 50
C10_Witness ==
    /\ vouchers # <<>>
    /\ \E i \in DOMAIN invoices :
        /\ invoices[i].total = 50
        /\ AmountsFor(vouchers, i) = <<50>>
        /\ invoices[i].paidAmount = 50
        /\ invoices[i].remainingAmount = 0
        /\ invoices[i].status = Paid

\* C11: no two stored vouchers carry the same voucherNumber.
C11_VoucherNumbersUnique ==
    \A k, l \in DOMAIN vouchers :
        vouchers[k].voucherNumber = vouchers[l].voucherNumber => k = l

\* the numbers of the records that exist before and after a step are equal
C14_Step ==
    /\ \A i \in DOMAIN invoices \cap DOMAIN invoices' :
        invoices'[i].invoiceNumber = invoices[i].invoiceNumber
    /\ \A k \in DOMAIN vouchers \cap DOMAIN vouchers' :
        vouchers'[k].voucherNumber = vouchers[k].voucherNumber

\* C14: the invoiceNumber of an existing invoice and the voucherNumber of an
\* existing voucher never change, whatever operation acts on the record.
C14_NumbersAreImmutable == [][C14_Step]_vars

\* an invoice that was paid and then edited to other items keeps its number
C14_Witness ==
    \E i \in DOMAIN invoices :
        /\ invoices[i].invoiceNumber = FirstInvoiceNumber
        /\ invoices[i].status = PartiallyPaid
        /\ invoices[i].total = 50
        /\ \E k \in DOMAIN vouchers :
            vouchers[k].invoiceId = i /\ vouchers[k].voucherNumber = FirstVoucherNumber

\* the stored vouchers stay as they are, and one is added only by the commit
\* of a payment transaction
C16_Step ==
    /\ Len(vouchers') >= Len(vouchers)
    /\ SubSeq(vouchers', 1, Len(vouchers)) = vouchers
    /\ vouchers' # vouchers =>
        /\ VoucherAdded
        /\ \E s \in Sessions :
            /\ tx[s].pc = "commit" /\ TransactionEnds(s)
            /\ outcome'[s] = "committed"

\* C16: the voucher collection is append-only: a voucher is added only by a
\* committed payment transaction, and no operation modifies or removes a
\* stored voucher.
C16_VouchersAppendOnly == [][C16_Step]_vars

\* two vouchers are stored, the second recorded from a snapshot without the first
C16_Witness ==
    /\ Len(vouchers) = 2
    /\ vouchers[1].voucherNumber = vouchers[2].voucherNumber

\* C17: the stored paidAmount of an existing invoice changes only in a step
\* that commits a payment on that invoice; an edit leaves it as stored.
C17_PaidAmountOnlyByPayment ==
    [][\A i \in DOMAIN invoices \cap DOMAIN invoices' :
            invoices'[i].paidAmount # invoices[i].paidAmount
                => (VoucherAdded /\ NewVoucher.invoiceId = i)]_vars

\* C18: a save that changes the total of an existing invoice stores the
\* status that follows from (total, paidAmount): Paid exactly when the total
\* is at most the paidAmount.
C18_EditRecomputesStatus ==
    [][\A i \in DOMAIN invoices \cap DOMAIN invoices' :
            invoices'[i].total # invoices[i].total
                => (invoices'[i].status = Paid
                        <=> invoices'[i].total <= invoices'[i].paidAmount)]_vars

\* C20: a payment transaction that failed is reported to the caller of
\* PaymentVouchers.handleSave: its promise is rejected, not fulfilled as
\* after a committed payment.
C20_FailureIsSurfaced ==
    \A s \in Sessions :
        outcome[s] \in {"notFound", "conflict"} => handleSavePromise(s) = "rejected"

\* C12: no two existing invoices carry the same invoiceNumber.
C12_InvoiceNumbersUnique ==
    \A i, j \in DOMAIN invoices :
        invoices[i].invoiceNumber = invoices[j].invoiceNumber => i = j

\* the number is the floor for an empty set of numbers, and otherwise
\* exceeds every number of the set by at least one and one of them by one
Allocated(number, numbers, floor) ==
    IF numbers = {} THEN number = floor
    ELSE /\ \A m \in numbers : number > m
         /\ number - 1 \in numbers

C13_Step ==
    /\ \A i \in DOMAIN invoices' \ DOMAIN invoices :
        \E s \in Sessions :
            /\ isModalOpen[s] /\ ~isModalOpen'[s]
            /\ Allocated(invoices'[i].invoiceNumber,
                         {invSnap[s][j].invoiceNumber : j \in DOMAIN invSnap[s]},
                         1001)
    /\ \A s \in Sessions :
        (tx[s].pc = "idle" /\ tx'[s].pc = "get")
            => Allocated(tx'[s].voucherNumber,
                         {vchSnap[s][k].voucherNumber : k \in DOMAIN vchSnap[s]},
                         1)
    /\ \A s \in Sessions :
        (TransactionEnds(s) /\ VoucherAdded)
            => NewVoucher.voucherNumber = tx[s].voucherNumber

\* C13: a new record gets the floor when the session's snapshot is empty and
\* otherwise one more than the largest number of the snapshot; the floor is
\* 1001 for invoices and 1 for vouchers.
C13_NextNumber == [][C13_Step]_vars

\* the invoice created from the snapshot {1001, 1005} is numbered 1006
C13_Witness ==
    /\ DOMAIN invoices = 1..3
    /\ invoices[1].invoiceNumber = 1001
    /\ invoices[2].invoiceNumber = 1005
    /\ invoices[3].invoiceNumber = 1006
    /\ DOMAIN invSnap[1] = 1..2

\* a step that removes an invoice leaves the vouchers and the other invoices
C15_Step ==
    \A i \in DOMAIN invoices \ DOMAIN invoices' :
        /\ vouchers' = vouchers
        /\ DOMAIN invoices' = DOMAIN invoices \ {i}
        /\ \A j \in DOMAIN invoices' : invoices'[j] = invoices[j]

\* C15: deleting an invoice removes only that invoice: every voucher, also
\* those of the deleted invoice, stays in the store unchanged, and no other
\* invoice is modified.
C15_DeleteRemovesOnlyTheInvoice == [][C15_Step]_vars

\* invoice 1 was paid 50 and then deleted; its voucher and invoice 2 remain
C15_Witness ==
    /\ DOMAIN invoices = {2}
    /\ invoices[2].invoiceNumber = 1002
    /\ \E k \in DOMAIN vouchers :
        vouchers[k].invoiceId = 1 /\ vouchers[k].amount = 50

\* this step writes or removes invoice i
Written(i) ==
    i \in DOMAIN invoices /\ (i \notin DOMAIN invoices' \/ invoices'[i] # invoices[i])

\* a transaction that has read its invoice keeps its snapshot through every
\* step that does not write that invoice, and with its snapshot it ends only
\* by committing
C19_Step ==
    \A s \in Sessions :
        (tx[s].pc = "commit" /\ tx[s].fresh) =>
            /\ ~Written(tx[s].invoiceId) => tx'[s] = tx[s]
            /\ tx'[s].pc # "commit" =>
                    /\ outcome'[s] = "committed"
                    /\ VoucherAdded
                    /\ NewVoucher.invoiceId = tx[s].invoiceId

\* C19: payments on different invoices do not interfere: a payment on one
\* invoice is never refused, retried or failed because of a payment (or any
\* write) on another invoice.
C19_DifferentInvoicesIndependent == [][C19_Step]_vars

\* one session has committed on an invoice while another, on its first
\* attempt, holds its snapshot of a different invoice
C19_Witness ==
    \E s, t \in Sessions :
        /\ s # t
        /\ tx[s].pc = "commit" /\ tx[s].fresh /\ tx[s].attempts = 1
        /\ outcome[t] = "committed" /\ tx[t].pc = "idle"
        /\ Len(vouchers) = 1
        /\ vouchers[1].invoiceId # tx[s].invoiceId
        /\ tx[s].invoiceId \in DOMAIN invoices
        /\ vouchers[1].invoiceId \in DOMAIN invoices

\* the invoice of one line of 3 at 50 is stored for 150, unpaid; the payment
\* of 150 stores one voucher of 150 for it and leaves it Paid with nothing
\* remaining
C21_Created ==
    \A i \in DOMAIN invoices :
        (invoices[i].items = <<[quantity |-> 3, price |-> 50]>>
            /\ AmountsFor(vouchers, i) = <<>>)
            => /\ invoices[i].total = 150
               /\ invoices[i].remainingAmount = 150
               /\ invoices[i].status = Pending

C21_Paid ==
    \A s \in Sessions :
        LET i == tx[s].invoiceId IN
        (tx[s].pc = "commit" /\ TransactionEnds(s) /\ outcome'[s] = "committed"
            /\ tx[s].amount = 150
            /\ invoices[i].items = <<[quantity |-> 3, price |-> 50]>>
            /\ AmountsFor(vouchers, i) = <<>>)
            => /\ invoices'[i].status = Paid
               /\ invoices'[i].remainingAmount = 0
               /\ AmountsFor(vouchers', i) = <<150>>
               /\ Len(vouchers') = Len(vouchers) + 1
               /\ NewVoucher.invoiceId = i

\* C21: round trip: an invoice created with one line of quantity 3 at price
\* 50 and then paid 150 once is Paid with remainingAmount 0 and has exactly
\* one voucher, of 150, with its invoiceId.
C21_RoundTrip == [](C21_Created) /\ [][C21_Paid]_vars

C21_Witness ==
    /\ Len(vouchers) = 1
    /\ vouchers[1].amount = 150
    /\ vouchers[1].invoiceId \in DOMAIN invoices
    /\ LET inv == invoices[vouchers[1].invoiceId] IN
        /\ inv.items = <<[quantity |-> 3, price |-> 50]>>
        /\ inv.status = Paid
        /\ inv.remainingAmount = 0

\* C22: the stored total of every invoice saved through the form is the sum
\* over its stored items of quantity * price.
C22_TotalIsSumOfLines ==
    \A i \in DOMAIN invoices :
        LET items == invoices[i].items IN
        invoices[i].total =
            SumSeq([k \in DOMAIN items |-> items[k].quantity * items[k].price])

\* items (2, 150), (1, 300) are stored with total 600
C22_Witness ==
    \E i \in DOMAIN invoices :
        /\ invoices[i].items = <<[quantity |-> 2, price |-> 150],
                                 [quantity |-> 1, price |-> 300]>>
        /\ invoices[i].total = 600

\* the dashboard of session s stays mounted in this step
DashboardStays(s) == page[s] = "dashboard" /\ page'[s] = "dashboard"

\* the total of the invoices in the store
RECURSIVE SumTotals(_)
SumTotals(ids) ==
    IF ids = {} THEN 0
    ELSE LET i == CHOOSE j \in ids : TRUE
         IN  invoices[i].total + SumTotals(ids \ {i})

\* a notification that changes the invoice figures of a dashboard leaves the
\* figures of the snapshot it delivered
C23_Step ==
    \A s \in Sessions :
        (DashboardStays(s)
            /\ <<stats'[s].sales, stats'[s].profit, stats'[s].invoices>>
                    # <<stats[s].sales, stats[s].profit, stats[s].invoices>>)
            => /\ stats'[s].sales = SumTotals(DOMAIN invoices)
               /\ stats'[s].invoices = Cardinality(DOMAIN invoices)
               /\ 4 * stats'[s].profit = 100 * stats'[s].sales

\* C23: after an invoice change notification the dashboard shows totalSales =
\* the sum of total over the delivered invoices, estimatedProfit = 0.25 *
\* totalSales and the number of delivered invoices, whatever it showed before.
C23_DashboardFigures == [][C23_Step]_vars

\* a dashboard that showed two invoices shows the one left after a deletion
C23_Witness ==
    \E s \in Sessions :
        /\ page[s] = "dashboard"
        /\ stats[s].invoices = 1
        /\ stats[s].sales = 50
        /\ stats[s].profit = 1250
        /\ nextInvoiceId = 3
        /\ Cardinality(DOMAIN invoices) = 1
        /\ Len(salesData[s]) = 1

\* the months of the invoices in the order of the documents delivered, each
\* with the total of its invoices
MonthsOf(ids) == {invoices[i].date \div 100 : i \in ids}
FirstOf(ids, month) == CHOOSE i \in ids :
    /\ invoices[i].date \div 100 = month
    /\ \A j \in ids : invoices[j].date \div 100 = month => i <= j

RECURSIVE SeriesOf(_, _)
SeriesOf(ids, months) ==
    IF months = {} THEN <<>>
    ELSE LET m == CHOOSE x \in months :
                    \A y \in months : FirstOf(ids, x) <= FirstOf(ids, y)
             of == {i \in ids : invoices[i].date \div 100 = m}
         IN  <<[name |-> monthNames[m], sales |-> SumTotals(of)]>>
             \o SeriesOf(ids, months \ {m})

\* C24: the monthlySales series has one entry per month among the invoice
\* dates, valued with the total of that month's invoices, ordered by the
\* first occurrence of the month in the collection as the store delivers it.
C24_SeriesInDeliveredOrder ==
    [][\A s \in Sessions :
            (DashboardStays(s) /\ salesData'[s] # salesData[s])
                => salesData'[s] = SeriesOf(DOMAIN invoices, MonthsOf(DOMAIN invoices))]_vars

\* the two notifications of a dashboard change disjoint parts of its state
C25_Step ==
    \A s \in Sessions :
        DashboardStays(s) =>
            /\ stats'[s].customers # stats[s].customers
                => /\ stats'[s].sales = stats[s].sales
                   /\ stats'[s].profit = stats[s].profit
                   /\ stats'[s].invoices = stats[s].invoices
                   /\ salesData'[s] = salesData[s]
                   /\ recentInvoices'[s] = recentInvoices[s]
            /\ (<<stats'[s].sales, stats'[s].invoices>>
                    # <<stats[s].sales, stats[s].invoices>>
                 \/ salesData'[s] # salesData[s]
                 \/ recentInvoices'[s] # recentInvoices[s])
                => stats'[s].customers = stats[s].customers

\* C25: an invoice notification leaves the dashboard's customer count, and a
\* customer notification leaves its sales, profit, invoice count, monthly
\* series and recent invoices, in every order of the two streams.
C25_DisjointUpdates == [][C25_Step]_vars

\* a dashboard that has been notified of a customer and of an invoice
C25_Witness ==
    \E s \in Sessions :
        /\ page[s] = "dashboard"
        /\ stats[s].customers = 1
        /\ stats[s].invoices = 1
        /\ stats[s].sales = 50
        /\ Len(recentInvoices[s]) = 1

\* the component a page mounts
ComponentOf(p) ==
    IF p = "dashboard" THEN "Dashboard"
    ELSE IF p = "invoices" THEN "Invoices"
    ELSE IF p = "customers" THEN "Customers"
    ELSE IF p = "services" THEN "Services"
    ELSE IF p = "vouchers" THEN "PaymentVouchers"
    ELSE "AuthPage"

\* the scope of a listener is open
ScopeOpen(l) ==
    IF l[2] = "VouchersForInvoiceModal"
    THEN page[l[1]] = "invoices" /\ vouchersModalOpen[l[1]]
    ELSE ComponentOf(page[l[1]]) = l[2] /\ currentUser[l[1]] # <<>>

\* the state a scope of session s fills from its deliveries, per component
Delivered(s) ==
    [Dashboard |-> <<stats[s], recentInvoices[s], salesData[s]>>,
     Invoices |-> invSnap[s],
     Customers |-> custSnap[s],
     Services |-> svcSnap[s],
     PaymentVouchers |-> vchSnap[s],
     VouchersForInvoiceModal |-> invVouchers[s]]

\* what the components hold when they mount
Undelivered ==
    [Dashboard |-> <<InitialStats, <<>>, <<>>>>,
     Invoices |-> <<>>,
     Customers |-> 0,
     Services |-> 0,
     PaymentVouchers |-> <<>>,
     VouchersForInvoiceModal |-> <<>>]

\* a step changes what a scope holds only if the scope is open after it, or
\* by discarding the state of the closed scope
C26_Step ==
    \A s \in Sessions : \A c \in DOMAIN Undelivered :
        Delivered(s)'[c] # Delivered(s)[c]
            => \/ Delivered(s)'[c] = Undelivered[c]
               \/ IF c = "VouchersForInvoiceModal"
                  THEN page[s] = "invoices" /\ vouchersModalOpen[s]
                  ELSE ComponentOf(page[s]) = c /\ ComponentOf(page'[s]) = c

\* C26: every subscription is released when its scope closes (a page torn
\* down by navigation or by a change of user, the vouchers modal closed):
\* no listener of a closed scope stays registered and no event is delivered
\* to a closed scope.
C26_ListenersReleased ==
    [](\A l \in listeners : ScopeOpen(l)) /\ [][C26_Step]_vars

\* one session has opened the modal, been notified and closed it; the other
\* has signed out after being notified on its dashboard
C26_Witness ==
    /\ page[1] = "invoices"
    /\ ~vouchersModalOpen[1]
    /\ selectedInvoiceForVouchers[1] = 1
    /\ Len(invVouchers[1]) = 1
    /\ page[2] = "auth"
    /\ listeners = {<<1, "Invoices", "invoices">>}

\* the path is that of a document in a collection under the data path of
\* the username
Under(path, username) ==
    /\ Len(path) = 8
    /\ SubSeq(path, 1, 5) = <<"artifacts", appId, "public", "data", "userdata">>
    /\ path[6] = username

\* the documents kept for a username
DataOf(store, username) ==
    [path \in {q \in DOMAIN store : Under(q, username)} |-> store[path]]

\* session s reads from, writes to or is notified from the store
Addresses(s) ==
    \/ \E coll \in Collections : onSnapshot(s, coll) \/ addDoc(s, coll, 0)
    \/ \E coll \in Collections : \E id \in 1..MaxTenantDocs : deleteDoc(s, coll, id)
    \/ \E id \in 1..MaxTenantDocs : runTransaction(s, id, 50)

\* an operation of a session leaves every document outside the data of its
\* user, and what it is delivered is made of the data of its user alone
C27_Step ==
    \A s \in Sessions :
        Addresses(s) =>
            /\ \A path \in DOMAIN userdata \cup DOMAIN userdata' :
                    (\/ path \notin DOMAIN userdata
                     \/ path \notin DOMAIN userdata'
                     \/ userdata'[path] # userdata[path])
                        => Under(path, currentUser[s])
            /\ \A u \in Usernames \ {currentUser[s]} :
                    DataOf(userdata', u) = DataOf(userdata, u)
            /\ tenantView'[s] # tenantView[s] =>
                    \A id \in DOMAIN tenantView'[s].docs :
                        LET path == dataPath(currentUser[s]) \o <<tenantView'[s].coll, id>>
                        IN  /\ path \in DOMAIN DataOf(userdata, currentUser[s])
                            /\ tenantView'[s].docs[id] = userdata[path]

\* C27: every read, write, subscription and transaction of a session of
\* username U addresses only records under U's data path, so no operation of
\* one tenant changes or depends on the data of another.
C27_TenantIsolation == [][C27_Step]_vars

\* both tenants hold a customer and an invoice; the tenant of session 1 has
\* been paid and session 2, signed in as the other, is shown an unpaid invoice
C27_Witness ==
    /\ currentUser[1] = Tenant
    /\ currentUser[2] = OtherTenant
    /\ (dataPath(Tenant) \o <<"invoices", 1>>) \in DOMAIN userdata
    /\ userdata[dataPath(Tenant) \o <<"invoices", 1>>] = 50
    /\ (dataPath(OtherTenant) \o <<"customers", 1>>) \in DOMAIN userdata
    /\ tenantView[2] # <<>>
    /\ tenantView[2].coll = "invoices"
    /\ tenantView[2].docs = (1 :> 0)

\* a refused attempt starts again from the read, with nothing kept of what
\* it had read
C28_Reexecutes ==
    \A s \in Sessions :
        tx'[s].attempts > tx[s].attempts /\ tx[s].attempts > 0
            => /\ tx'[s].pc = "get"
               /\ ~tx'[s].fresh
               /\ tx'[s].invoiceData = NoInvoice
               /\ tx'[s].attempts = tx[s].attempts + 1

\* C28: under fair scheduling every recordPayment call ends, by a commit or
\* by a failure after a bounded number of retries; none retries for ever,
\* and a call that loses a conflict runs its whole read-modify-write again.
C28_PaymentTerminates ==
    /\ \A s \in Sessions :
            (tx[s].pc # "idle")
                ~> (tx[s].pc = "idle"
                    /\ outcome[s] \in {"committed", "notFound", "conflict"})
    /\ [](\A s \in Sessions : tx[s].attempts <= MaxAttempts)
    /\ [][C28_Reexecutes]_vars

\* a call that lost a conflict has read the invoice again
C28_Witness ==
    \E s \in Sessions :
        /\ tx[s].pc = "commit"
        /\ tx[s].attempts = MaxAttempts
        /\ tx[s].fresh
        /\ tx[s].invoiceData = invoices[tx[s].invoiceId]

\* the paidAmount of every stored invoice
PaidAmounts(coll) == [i \in DOMAIN coll |-> FieldOrZero(coll[i], "paidAmount")]

\* session s reports success in this step
Succeeds(s) ==
    /\ tx[s].pc = "commit"
    /\ tx'[s].pc = "idle"
    /\ outcome'[s] = "committed"

\* the step of a success adds the voucher of the call and its amount, once;
\* every other step leaves the vouchers and the paid amounts
C30_Step ==
    /\ \A s \in Sessions :
            Succeeds(s) =>
                LET i == tx[s].invoiceId IN
                /\ vouchers' = Append(vouchers, vouchers'[Len(vouchers')])
                /\ vouchers'[Len(vouchers')].invoiceId = i
                /\ vouchers'[Len(vouchers')].amount = tx[s].amount
                /\ PaidAmounts(invoices') =
                        [PaidAmounts(invoices) EXCEPT ![i] = @ + tx[s].amount]
                /\ \A r \in Sessions \ {s} : ~Succeeds(r)
    /\ (\A s \in Sessions : ~Succeeds(s)) =>
            /\ vouchers' = vouchers
            /\ PaidAmounts(invoices') = PaidAmounts(invoices)

\* C30: a recordPayment call that reports success has added exactly one
\* voucher and increased paidAmount by its amount exactly once, also when
\* the transaction ran again after a conflict; an attempt that is run again
\* or aborted leaves no voucher and no increment.
C30_ExactlyOnce == [][C30_Step]_vars

\* a call has been aborted after its attempts lost to two payments of 50,
\* which are all that is stored
C30_Witness ==
    \E s \in Sessions :
        /\ outcome[s] = "conflict"
        /\ Len(vouchers) = 2
        /\ \A k \in 1..2 : vouchers[k].invoiceId = 1 /\ vouchers[k].amount = 50
        /\ invoices[1].paidAmount = 100

\* C29: no two profiles carry the same username, and every stored username
\* is lower-case alphanumeric ASCII with a password of at least 6 characters,
\* for every interleaving of registrations, also of the same name at the same
\* time and of names that differ only in case.
C29_ProfilesWellFormed ==
    /\ \A j, k \in DOMAIN profiles :
            j # k => profiles[j].username # profiles[k].username
    /\ \A k \in DOMAIN profiles :
            /\ IsAlphanumeric(profiles[k].username)
            /\ toLowerCase(profiles[k].username) = profiles[k].username
            /\ Len(profiles[k].password) >= 6

====
